---- MODULE Spec2Model ----
(***************************************************************************)
(* The GPU-job orchestration service: the HTTP API (background-service),   *)
(* the task pull (gstream.worker.task_pull.TaskPull), the worker           *)
(* subprocesses (gstream.worker.base.GPUProcess), the task store (Redis)   *)
(* and the file store.  One action per handler step; a step is the code    *)
(* between two awaits on the store, so that the read-modify-write of one   *)
(* writer interleaves with the other processes as it does in the code.     *)
(*                                                                         *)
(* The task store is persistent and shared: a process finds in it what     *)
(* earlier processes left.  Init therefore draws, besides the empty store, *)
(* the record of a task whose worker has finished (status finished,        *)
(* result file written).                                                   *)
(*                                                                         *)
(* TaskPull's coroutines are its public entry points.  run_tasks starts    *)
(* one run_tasks_block per type known to ready_pull at the moment it       *)
(* runs; the moment is left to the scheduler (under run_pull it is the     *)
(* start of the pull, when ready_pull is still empty).                     *)
(*                                                                         *)
(* Specifications:                                                         *)
(*   Spec       every writer of the task store (API, pull, workers)        *)
(*   SpecFiles  every writer of the file store, with key expiry and the    *)
(*              synchronization of the file store with the task store      *)
(*   SpecFair   the launch path under fair scheduling of the pull's loops  *)
(*   SpecTimed  the kill path with the polling periods counted             *)
(*   SpecClock  the writers of one State record with the wall clock running *)
(*   SpecRetry  SpecFair with process ids for a launch and a relaunch      *)
(*   SpecScan   the kill path with the scan's enumeration and reads apart, *)
(*              and key expiry                                             *)
(*   SpecCreate one user's requests up to POST /run, with task ids enough  *)
(*              to pass the per-user cap                                   *)
(*   SpecLoad   two clients' POST /load-args step by step, with POST       *)
(*              /create and key expiry                                     *)
(*   SpecAccept POST /accept step by step, with POST /create, POST /kill   *)
(*              and the kill path                                          *)
(*   SpecStore  add_task and update_task_state on the task store's keys    *)
(*   SpecLog    concurrent add_log_message calls on one Log key            *)
(*   SpecLib    the library functions (GPU rig, binary envelopes) called   *)
(*              with arguments from bounded sets                           *)
(*   SpecKill   the kill loop with the API, the launch path, the workers   *)
(*              and key expiry                                             *)
(*   SpecUser   two clients' POST /create step by step, with key expiry    *)
(*   SpecBacklog the ready scan cycle by cycle with the run loop, with     *)
(*              ready_pull followed up to MaxBacklog entries               *)
(***************************************************************************)
EXTENDS Integers, Sequences, FiniteSets, TLC

\* ------------------------------------------------------------------ bounds
MaxQueue == 1      \* longest queue the model follows (asyncio.Queue is unbounded)
MaxPid == 1        \* subprocesses the pull spawns in one behaviour
LogCap == 2        \* log-line counters saturate here ("twice or more")
CpuCores == 1      \* GPURigInfo.cpu_cores_count of the host
MaxAge == 3        \* polling periods followed after a kill request
MaxClock == 3      \* seconds of wall clock followed
MaxRelaunch == 2   \* subprocesses the pull spawns where relaunching is followed
MaxInputBytes == 2 \* byte cap of a POST /load-args body (1024 MiB in task.py:27)
MaxCards == 2      \* GPU cards of a rig
MaxBacklog == 3    \* longest queue followed where the scan cycles repeat
MaxDim == 2        \* rows and columns of an array envelope

PullTaskIds == {"t1", "t2"}
UserTaskIds == {"t1", "t2", "t3", "t4"}
SeedTask == "t1"

\* The clients that send POST /load-args at the same time.
LoadIds == {1, 2}

\* The user ids of POST /create; the API's requests are those of u1.
Users == {"u1", "u2"}

\* The lengths of the bodies they send: up to one byte above the cap.
Bodies == 0..(MaxInputBytes + 1)

\* No bytes written under a name.
NoData == -1
TaskTypes == {"delays", "location"}

\* ------------------------------------------------------------ data model
\* The value of store[t] when no State key matches the task id.
NoTask == [status |-> "absent"]

\* models.py TaskState with its defaults: status new, pid -1, flags false;
\* now is the clock at the construction of the model (set_modified_datetime).
TaskState(type, now) ==
    [type_ |-> type, status |-> "new", is_accepted |-> FALSE,
     pid |-> -1, is_need_kill |-> FALSE, modified_unix_time |-> now]

\* The record a finished worker leaves: launched under pid 0 (a process
\* that has ended), finalized with the result present, written at second 0
\* (the pull starts at second 1).
SeedState ==
    [type_ |-> "delays", status |-> "finished", is_accepted |-> FALSE,
     pid |-> 0, is_need_kill |-> FALSE, modified_unix_time |-> 0]

\* Filenames are generated per task (uuid4): one name per (kind, task).
input_args_filename(t) == <<"input", t>>
script_filename(t) == <<"script", t>>
output_args_filename(t) == <<"output", t>>
init_script_filename(t) == <<"init", t>>
OrphanFile == <<"orphan", "x">>

\* TaskState.all_filenames: input, script, output (no init script).
all_filenames(t) ==
    {input_args_filename(t), script_filename(t), output_args_filename(t)}

\* The four filename references of a record.
FilenameReferences(t) == all_filenames(t) \cup {init_script_filename(t)}

\* A rollback that resets the status and forgets the pid.
rollback_keeps_pid(state) == [state EXCEPT !.status = "ready"]

\* TaskState.rollback
rollback(state) == [state EXCEPT !.status = "ready", !.pid = -1]

VARIABLES
    store,          \* [TaskIds -> TaskState or NoTask]: the :State keys
    ttl,            \* [TaskIds -> BOOLEAN]: the State key carries an expiry
    log,            \* [TaskIds -> log record]: the Log:{task_id} keys
    files,          \* the filenames in the file store
    procs,          \* [Pids -> "none" | "running" | "zombie"]: OS processes
    worker,         \* [Pids -> local state of the worker subprocess]
    spawned,        \* number of subprocesses spawned so far
    kill_pull,      \* TaskPull.__kill_pull
    accepted_pull,  \* TaskPull.__accepted_pull
    ready_pull,     \* TaskPull.__ready_pull: [TaskTypes -> queue or NoQueue]
    run_blocks,     \* run_tasks: [started |-> BOOLEAN, types |-> set]
    kill_local,     \* __kill_task between its read and its write
    run_local,      \* [TaskTypes -> __run_single_task between read and write]
    sync_local,     \* synchronize_file_storage_with_redis between its reads
    api,            \* the API request in flight
    created,        \* task ids /create has handed out (uuid4: never reused)
    ram_available,  \* GPURig.is_available_ram_memory of the host
    slept,          \* loops that have run in the current polling period
    age,            \* [TaskIds -> periods since /kill set the flag, or -1]
    clock,          \* int(time()): the wall clock in whole seconds
    scan_local,     \* scan_killing_tasks between all_task_ids and its reads
    pull,           \* "running", or "cancelled" once a loop has raised
    response,       \* status code of the last answer to POST /create, or 0
    loads,          \* [LoadIds -> the POST /load-args request of that client]
    data,           \* [TaskIds -> bytes under input_args_filename, or NoData]
    state_keys,     \* the <<user_id, task_id>> of the keys User:..:Task:..:State
    appends,        \* [DOMAIN AppenderLine -> add_log_message in flight]
    call            \* a call of a library function: arguments, then result

storeVars == <<store, ttl, log, files>>
osVars == <<procs, worker, spawned>>
queueVars == <<kill_pull, accepted_pull, ready_pull, run_blocks>>
localVars == <<kill_local, run_local, sync_local>>
timeVars == <<slept, age>>
hostVars == <<ram_available, clock>>
restVars ==
    <<scan_local, pull, response, loads, data, state_keys, appends, call>>

\* The process ids the pull's subprocesses get.
Pids == DOMAIN procs

\* The task ids (uuid4 values) the behaviour can meet.
TaskIds == DOMAIN store
vars == <<store, ttl, log, files, procs, worker, spawned, kill_pull,
          accepted_pull, ready_pull, run_blocks, kill_local, run_local,
          sync_local, api, created, ram_available, slept, age, clock,
          scan_local, pull, response, loads, data, state_keys, appends,
          call>>

\* --------------------------------------------------------------- the log
\* The log lines the model counts; every other line only creates the key.
LogLines ==
    {"Task was killed", "Task successfully completed", "Failed task processing",
     "Process not run now but will run later", "Task was created"}
NoLog == [exists |-> FALSE]

\* A Log key as SET by add_log_message, before its line is counted: the key
\* gets its expiry at once (lines 83-89).
EmptyLog == [exists |-> TRUE, count |-> [l \in LogLines |-> 0], expires |-> TRUE]

\* The processes that append to a log, each with a line it appends.
AppenderLine ==
    [api |-> "Task state was updated", pull |-> "Task was killed",
     worker |-> "Task successfully completed"]

Saturate(n) == IF n < LogCap THEN n + 1 ELSE LogCap

\* Storage.add_log_message: create the key with the line, or append to it.
add_log_message(lg, text) ==
    LET base == IF lg.exists THEN lg ELSE EmptyLog
    IN  IF text \in LogLines
        THEN [base EXCEPT !.count[text] = Saturate(@)]
        ELSE base

\* ------------------------------------------------------------- the store
is_task_exist(t) == store[t].status # "absent"

\* Storage.get_task_state: the stored record as a new TaskState, whose root
\* validator set_modified_datetime puts the clock of this moment into
\* modified_unix_time (the stored value is overwritten in the model object).
get_task_state(t) ==
    IF is_task_exist(t)
    THEN [store[t] EXCEPT !.modified_unix_time = clock]
    ELSE NoTask

all_task_ids == {t \in TaskIds : is_task_exist(t)}

\* Storage.active_task_ids: the tasks whose status is running.
active_task_ids == {t \in all_task_ids : store[t].status = "running"}

\* Storage.all_filenames: union of TaskState.all_filenames over all tasks.
redis_all_filenames == UNION {all_filenames(t) : t \in all_task_ids}

is_file_exist(f) == f \in files

NoQueue == <<"no-queue">>
Idle == [pc |-> "idle"]

\* ---------------------------------------------------------------- Init
\* The state at the start: seeded says whether the store holds the finished
\* task, orphan whether the file store holds a file no task names, ram
\* whether the host has RAM available, pids the number of process ids, ids
\* the task ids.
StartOf(ids, seeded, orphan, ram, pids) ==
    /\ store = [t \in ids |->
                  IF seeded /\ t = SeedTask THEN SeedState ELSE NoTask]
    /\ log = [t \in ids |->
                  IF seeded /\ t = SeedTask THEN EmptyLog ELSE NoLog]
    /\ files = (IF seeded THEN all_filenames(SeedTask) ELSE {})
               \cup (IF orphan THEN {OrphanFile} ELSE {})
    /\ ttl = [t \in ids |-> FALSE]
    /\ procs = [p \in 1..pids |-> "none"]
    /\ worker = [p \in 1..pids |-> Idle]
    /\ spawned = 0
    /\ kill_pull = <<>>
    /\ accepted_pull = <<>>
    /\ ready_pull = [ty \in TaskTypes |-> NoQueue]
    /\ run_blocks = [started |-> FALSE, types |-> {}]
    /\ kill_local = Idle
    /\ run_local = [ty \in TaskTypes |-> Idle]
    /\ sync_local = Idle
    /\ api = Idle
    /\ created = {}
    /\ ram_available = ram
    /\ slept = {}
    /\ age = [t \in ids |-> -1]
    /\ clock = 1
    /\ scan_local = Idle
    /\ pull = "running"
    /\ response = 0
    /\ loads = [r \in LoadIds |-> Idle]
    /\ data = [t \in ids |-> IF seeded /\ t = SeedTask THEN 1 ELSE NoData]
    /\ state_keys = IF seeded THEN {<<"u1", SeedTask>>} ELSE {}
    /\ appends = [a \in DOMAIN AppenderLine |-> Idle]

Start(seeded, orphan, ram, pids) ==
    StartOf(PullTaskIds, seeded, orphan, ram, pids) /\ call = Idle

Init == \E seeded \in BOOLEAN, ram \in BOOLEAN : Start(seeded, FALSE, ram, MaxPid)

\* Storage.update_task_state: SET the State key (which drops its expiry) and
\* append 'Task state was updated'.  With no State key the key pattern
\* resolves to None and the SET raises: nothing is written.
UpdateStore(t, state) == IF is_task_exist(t) THEN [store EXCEPT ![t] = state] ELSE store
UpdateTtl(t) == IF is_task_exist(t) THEN [ttl EXCEPT ![t] = FALSE] ELSE ttl
UpdateLog(t) ==
    IF is_task_exist(t)
    THEN [log EXCEPT ![t] = add_log_message(@, "Task state was updated")]
    ELSE log

update_task_state(t, state) ==
    /\ store' = UpdateStore(t, state)
    /\ ttl' = UpdateTtl(t)
    /\ log' = UpdateLog(t)

\* ------------------------------------------------------------------ API
MAXIMAL_TASKS_FOR_USER == 2

\* Storage.get_user_task_ids: the ids under the keys 'User:{user_id}:Task:*'
\* (one user).
get_user_task_ids == all_task_ids

\* create_task with the cap itself refused.
IsOverCapAtCap(tasks_count) == tasks_count >= MAXIMAL_TASKS_FOR_USER

\* create_task, line 179: tasks_count > MAXIMAL_TASKS_FOR_USER.
IsOverCap(tasks_count) == tasks_count > MAXIMAL_TASKS_FOR_USER

\* Storage.add_task with no test of is_task_exist.
AddTaskNeverRaises(t) == FALSE

\* Storage.add_task, lines 109-112: KeyError when the task exists.
AddTaskRaises(t) == is_task_exist(t)

\* Storage.add_task, lines 113-125: MSET of the key
\* User:{user_id}:Task:{task_id}:State, the expiry of the keys of the task,
\* and the log line 'Task was created'.
AddTaskWrites(u, t, type) ==
    /\ store' = [store EXCEPT ![t] = TaskState(type, clock)]
    /\ state_keys' = state_keys \cup {<<u, t>>}
    /\ ttl' = [ttl EXCEPT ![t] = TRUE]
    /\ log' = [log EXCEPT ![t] = add_log_message(@, "Task was created")]

\* POST /create: 429 above the per-user cap, else add_task of a new TaskState
\* (State key with expiry, log 'Task was created') and 200 with the task id.
create_task(type) ==
    /\ IF IsOverCap(Cardinality(get_user_task_ids))
       THEN /\ response' = 429
            /\ UNCHANGED <<store, ttl, log, created, state_keys>>
       ELSE /\ \E t \in TaskIds \ (created \cup {SeedTask}) :
                /\ ~is_task_exist(t)
                /\ AddTaskWrites("u1", t, type)
                /\ created' = created \cup {t}
            /\ response' = 200
    /\ UNCHANGED <<files, osVars, queueVars, localVars, api, hostVars,
                   timeVars, scan_local, pull, loads, data, appends, call>>

\* POST /load-args that writes the launcher script for every task type.
load_input_args_any_type(t) ==
    /\ is_task_exist(t)
    /\ store[t].status = "new"
    /\ ~is_file_exist(input_args_filename(t))
    /\ files' = files \cup {input_args_filename(t), script_filename(t)}
    /\ data' = [data EXCEPT ![t] = 1]
    /\ log' = [log EXCEPT ![t] = add_log_message(@, "Input arguments was loaded.")]
    /\ UNCHANGED <<store, ttl, osVars, queueVars, localVars, api, created,
                   hostVars, scan_local, pull, response, loads, state_keys,
                   appends, call, timeVars>>

\* POST /load-args: task exists, status new; save the body (one byte) under
\* input_args_filename (save_binary_data fails when the name exists), log,
\* and for type delays write the launcher script under script_filename.
load_input_args(t) ==
    /\ is_task_exist(t)
    /\ store[t].status = "new"
    /\ ~is_file_exist(input_args_filename(t))
    /\ files' = files \cup {input_args_filename(t)}
                \cup (IF store[t].type_ = "delays"
                      THEN {script_filename(t)} ELSE {})
    /\ data' = [data EXCEPT ![t] = 1]
    /\ log' = [log EXCEPT ![t] = add_log_message(@, "Input arguments was loaded.")]
    /\ UNCHANGED <<store, ttl, osVars, queueVars, localVars, api, created,
                   hostVars, scan_local, pull, response, loads, state_keys,
                   appends, call, timeVars>>

\* check_task_is_ready_for_run: status new, input file and script present.
IsReadyForRun(t) ==
    /\ is_task_exist(t)
    /\ store[t].status = "new"
    /\ is_file_exist(input_args_filename(t))
    /\ is_file_exist(script_filename(t))

\* check_finished_task with every terminal status let through.
IsTerminalTask(t) ==
    /\ is_task_exist(t)
    /\ store[t].status \in {"finished", "failed", "killed"}
    /\ is_file_exist(output_args_filename(t))

\* check_finished_task: status finished and the output file present.
IsFinishedTask(t) ==
    /\ is_task_exist(t)
    /\ store[t].status = "finished"
    /\ is_file_exist(output_args_filename(t))

ApiUnchanged ==
    UNCHANGED <<storeVars, osVars, queueVars, localVars, created,
                hostVars, restVars, timeVars>>

\* POST /run, the decorator: the request goes on only when the task is ready
\* for run.
run_task_check(t) ==
    /\ api = Idle
    /\ IsReadyForRun(t)
    /\ api' = [pc |-> "run_read", task |-> t]
    /\ ApiUnchanged

\* POST /run, the handler's read: check_task_exist, then get_task_state.
run_task_read ==
    /\ api.pc = "run_read"
    /\ api' = IF is_task_exist(api.task)
              THEN [pc |-> "run_write", task |-> api.task,
                    state |-> get_task_state(api.task)]
              ELSE Idle
    /\ ApiUnchanged

\* POST /run, the handler's write: status = ready on the state it read.
run_task_write ==
    /\ api.pc = "run_write"
    /\ update_task_state(api.task, [api.state EXCEPT !.status = "ready"])
    /\ api' = Idle
    /\ UNCHANGED <<files, osVars, queueVars, localVars, created,
                   hostVars, restVars, timeVars>>

\* POST /kill, the handler's read.
kill_task_read(t) ==
    /\ api = Idle
    /\ is_task_exist(t)
    /\ api' = [pc |-> "kill_write", task |-> t, state |-> get_task_state(t)]
    /\ ApiUnchanged

\* POST /kill, the handler's write: is_need_kill = True on the state it read.
kill_task_write_store ==
    /\ api.pc = "kill_write"
    /\ update_task_state(api.task, [api.state EXCEPT !.is_need_kill = TRUE])
    /\ api' = Idle
    /\ UNCHANGED <<files, osVars, queueVars, localVars, created,
                   hostVars, restVars>>

kill_task_write == kill_task_write_store /\ UNCHANGED timeVars

\* POST /accept, the decorator.
accept_transfer_check(t) ==
    /\ api = Idle
    /\ IsFinishedTask(t)
    /\ api' = [pc |-> "accept_read", task |-> t]
    /\ ApiUnchanged

\* POST /accept, the handler's read.
accept_transfer_read ==
    /\ api.pc = "accept_read"
    /\ api' = IF is_task_exist(api.task)
              THEN [pc |-> "accept_write", task |-> api.task,
                    state |-> get_task_state(api.task)]
              ELSE Idle
    /\ ApiUnchanged

\* POST /accept, the handler's write: is_accepted = True on the state it read.
accept_transfer_write ==
    /\ api.pc = "accept_write"
    /\ update_task_state(api.task, [api.state EXCEPT !.is_accepted = TRUE])
    /\ api' = Idle
    /\ UNCHANGED <<files, osVars, queueVars, localVars, created,
                   hostVars, restVars, timeVars>>

\* The State key of a task that was never updated expires (add_task sets the
\* expiry, every later SET drops it).
expire(t) ==
    /\ is_task_exist(t)
    /\ ttl[t]
    /\ store' = [store EXCEPT ![t] = NoTask]
    /\ ttl' = [ttl EXCEPT ![t] = FALSE]
    /\ state_keys' = {k \in state_keys : k[2] # t}
    /\ UNCHANGED <<log, files, osVars, queueVars, localVars, api, created,
                   hostVars, scan_local, pull, response, loads, data,
                   appends, call, timeVars>>

\* ------------------------------------------------------------- the pull
PullUnchanged ==
    UNCHANGED <<storeVars, osVars, localVars, api, created, hostVars, restVars>>

\* asyncio.Queue.put, followed up to MaxQueue entries.
Put(q, t) == IF Len(q) < MaxQueue THEN Append(q, t) ELSE q

\* scan_killing_tasks, one task of the cycle: skip a killed task and a task
\* without the flag, else put the id into kill_pull.
KillScanPut(q, t) ==
    IF is_task_exist(t) /\ store[t].status # "killed" /\ store[t].is_need_kill
    THEN Put(q, t)
    ELSE q

scan_killing_tasks(t) ==
    /\ kill_pull' = KillScanPut(kill_pull, t)
    /\ kill_pull' # kill_pull
    /\ UNCHANGED <<accepted_pull, ready_pull, run_blocks, timeVars>>
    /\ PullUnchanged

\* scan_ready_tasks, one task of the cycle: a ready task's id goes into
\* ready_pull[type], the queue being created at the type's first sighting.
scan_ready_tasks(t) ==
    /\ is_task_exist(t)
    /\ store[t].status = "ready"
    /\ LET ty == store[t].type_
           q == IF ready_pull[ty] = NoQueue THEN <<>> ELSE ready_pull[ty]
       IN  /\ Len(q) < MaxQueue
           /\ ready_pull' = [ready_pull EXCEPT ![ty] = Append(q, t)]
    /\ UNCHANGED <<kill_pull, accepted_pull, run_blocks, timeVars>>
    /\ PullUnchanged

\* scan_accepted_tasks, one task of the cycle.
scan_accepted_tasks(t) ==
    /\ is_task_exist(t)
    /\ store[t].is_accepted
    /\ Len(accepted_pull) < MaxQueue
    /\ accepted_pull' = Append(accepted_pull, t)
    /\ UNCHANGED <<kill_pull, ready_pull, run_blocks, timeVars>>
    /\ PullUnchanged

\* psutil.Process(pid): the state of the OS process, "none" when there is no
\* such process (pid 0 is the seed record's worker, which has ended).
ProcessStatus(pid) == IF pid \in Pids THEN procs[pid] ELSE "none"

\* __kill_task with no test of is_need_kill.
KillDecisionWithoutFlag(state, seen_zombie) ==
    IF state.status = "absent"
    THEN [signal |-> FALSE, write |-> FALSE]
    ELSE IF state.pid = -1 \/ ProcessStatus(state.pid) = "none"
    THEN [signal |-> FALSE, write |-> TRUE]
    ELSE IF ProcessStatus(state.pid) = "running"
    THEN [signal |-> TRUE, write |-> seen_zombie]
    ELSE [signal |-> FALSE, write |-> TRUE]

\* __kill_task that takes every process it finds for dead.
KillDecisionWithoutObservation(state, seen_zombie) ==
    IF state.status = "absent" \/ ~state.is_need_kill
    THEN [signal |-> FALSE, write |-> FALSE]
    ELSE [signal |-> FALSE, write |-> TRUE]

\* __kill_task from its read of the state to its decision.  The result says
\* whether the process is signalled and whether status = killed is written:
\* no write when the flag is not set; a write when pid = -1, when there is
\* no such process, or when the process is seen as a zombie.  After
\* process.kill() the one observation of the status sees a zombie or not.
KillDecision(state, seen_zombie) ==
    IF state.status = "absent" \/ ~state.is_need_kill
    THEN [signal |-> FALSE, write |-> FALSE]
    ELSE IF state.pid = -1 \/ ProcessStatus(state.pid) = "none"
    THEN [signal |-> FALSE, write |-> TRUE]
    ELSE IF ProcessStatus(state.pid) = "running"
    THEN [signal |-> TRUE, write |-> seen_zombie]
    ELSE [signal |-> FALSE, write |-> TRUE]

\* kill_tasks: take the next id of kill_pull; __kill_task reads the state,
\* signals the process if it runs, and decides on the write.
kill_tasks_read_step ==
    /\ kill_local = Idle
    /\ kill_pull # <<>>
    /\ LET t == Head(kill_pull)
           state == get_task_state(t)
       IN  \E seen_zombie \in BOOLEAN :
           LET d == KillDecision(state, seen_zombie)
           IN  /\ d.signal \/ seen_zombie
               /\ kill_pull' = Tail(kill_pull)
               /\ IF d.signal
                  THEN /\ procs' = [procs EXCEPT ![state.pid] = "zombie"]
                       /\ worker' = [worker EXCEPT ![state.pid] = Idle]
                  ELSE UNCHANGED <<procs, worker>>
               /\ kill_local' =
                    IF d.write
                    THEN [pc |-> "write", task |-> t,
                          state |-> [state EXCEPT !.status = "killed"]]
                    ELSE Idle
    /\ UNCHANGED <<storeVars, spawned, accepted_pull, ready_pull, run_blocks,
                   run_local, sync_local, api, created, hostVars, restVars>>

kill_tasks_read == kill_tasks_read_step /\ UNCHANGED timeVars

\* __kill_task, the write: update_task_state, then the log line.
kill_tasks_write ==
    /\ kill_local.pc = "write"
    /\ store' = UpdateStore(kill_local.task, kill_local.state)
    /\ ttl' = UpdateTtl(kill_local.task)
    /\ log' = IF is_task_exist(kill_local.task)
              THEN [UpdateLog(kill_local.task) EXCEPT ![kill_local.task] =
                      add_log_message(@, "Task was killed")]
              ELSE log
    /\ kill_local' = Idle
    /\ UNCHANGED <<files, osVars, queueVars, run_local, sync_local, api,
                   created, hostVars, restVars, timeVars>>

\* Storage.remove_task: DEL of the literal name '*Task:{task_id}:State' (no
\* key has that name: the State key stays) and DEL of Log:{task_id}.
remove_task(lg, t) == [lg EXCEPT ![t] = NoLog]

\* __remove_task without its test of is_accepted.
RemoveTaskGoesOnUnaccepted(t) == is_task_exist(t)

\* __remove_task, lines 157-163: it goes on when the state it re-reads is
\* found and is accepted.
RemoveTaskGoesOn(t) == is_task_exist(t) /\ store[t].is_accepted

\* remove_tasks: take the next id of accepted_pull; __remove_task re-reads
\* the state and, when it is accepted, removes the task and its files.
remove_tasks ==
    /\ accepted_pull # <<>>
    /\ LET t == Head(accepted_pull)
       IN  /\ accepted_pull' = Tail(accepted_pull)
           /\ IF RemoveTaskGoesOn(t)
              THEN /\ log' = remove_task(log, t)
                   /\ files' = files \ all_filenames(t)
              ELSE UNCHANGED <<log, files>>
    /\ UNCHANGED <<store, ttl, osVars, kill_pull, ready_pull, run_blocks,
                   localVars, api, created, hostVars, restVars, timeVars>>

\* synchronize_file_storage_with_redis, line 45: the filenames the task
\* store knows.  before is the file store at this moment, kept to tell the
\* files created during the cycle from the older ones.
synchronize_read ==
    /\ sync_local = Idle
    /\ sync_local' = [pc |-> "list", redis |-> redis_all_filenames,
                      before |-> files]
    /\ UNCHANGED <<storeVars, osVars, queueVars, kill_local, run_local, api,
                   created, hostVars, restVars, timeVars>>

\* line 46: the filenames in the file store.
synchronize_list ==
    /\ sync_local.pc = "list"
    /\ sync_local' = [pc |-> "delete", redis |-> sync_local.redis,
                      before |-> sync_local.before, listed |-> files]
    /\ UNCHANGED <<storeVars, osVars, queueVars, kill_local, run_local, api,
                   created, hostVars, restVars, timeVars>>

\* The test of line 49 inverted: the listed filenames the task store knew.
SynchronizeRemovedKnown(listed, redis) == {f \in listed : f \in redis}

\* lines 48-51: the listed filenames the task store did not know.
SynchronizeRemoved(listed, redis) == {f \in listed : f \notin redis}

\* lines 48-52: remove them; the cycle is complete.
synchronize_delete ==
    /\ sync_local.pc = "delete"
    /\ files' = files \ SynchronizeRemoved(sync_local.listed, sync_local.redis)
    /\ sync_local' = Idle
    /\ UNCHANGED <<store, ttl, log, osVars, queueVars, kill_local, run_local,
                   api, created, hostVars, restVars, timeVars>>

\* ----------------------------------------------------------- the run loop
\* __is_possible_run_any_task: fewer running tasks than CPU cores, and RAM
\* available.
is_possible_run_any_task ==
    /\ Cardinality(active_task_ids) < CpuCores
    /\ ram_available

\* __is_possible_run_task: global admission, the task exists, its status is
\* ready, its input file and its script file exist.
is_possible_run_task(t) ==
    /\ is_possible_run_any_task
    /\ is_task_exist(t)
    /\ store[t].status = "ready"
    /\ is_file_exist(input_args_filename(t))
    /\ is_file_exist(script_filename(t))

\* __run_single_task, line 212: 'if not self.__is_possible_run_task(...)'
\* tests the coroutine object, which is never awaited and is true as an
\* object: the early return is never taken.
RunSingleTaskGoesOn(t) == TRUE

\* run_tasks: one run_tasks_block per key of ready_pull at this moment; the
\* task group ends at once when there is none.
run_tasks ==
    /\ ~run_blocks.started
    /\ run_blocks' = [started |-> TRUE,
                      types |-> {ty \in TaskTypes : ready_pull[ty] # NoQueue}]
    /\ UNCHANGED <<kill_pull, accepted_pull, ready_pull, timeVars>>
    /\ PullUnchanged

\* subprocess._cleanup, run by every Popen: the ended children are reaped.
Reaped(ps) == [p \in Pids |-> IF ps[p] = "zombie" THEN "none" ELSE ps[p]]

\* run_tasks_block(type), up to the spawn: the block goes on when
\* ready_pull[type] is not empty, takes the next id of accepted_pull (line
\* 242), and __run_single_task reads the state and spawns 'python3 <script>'.
\* The child ends at once when its script file or its task does not exist.
run_tasks_block_spawn(ty) ==
    /\ ty \in run_blocks.types
    /\ run_local[ty] = Idle
    /\ ready_pull[ty] # <<>>
    /\ accepted_pull # <<>>
    /\ LET t == Head(accepted_pull)
           p == spawned + 1
       IN  /\ RunSingleTaskGoesOn(t)
           /\ is_task_exist(t)
           /\ p \in Pids
           /\ accepted_pull' = Tail(accepted_pull)
           /\ spawned' = p
           /\ procs' = [Reaped(procs) EXCEPT ![p] = "running"]
           /\ worker' = [worker EXCEPT ![p] =
                           IF is_file_exist(script_filename(t))
                           THEN [pc |-> "run", task |-> t]
                           ELSE [pc |-> "exit", task |-> t]]
           /\ run_local' = [run_local EXCEPT ![ty] =
                              [pc |-> "write", task |-> t, proc |-> p,
                               state |-> [get_task_state(t) EXCEPT !.pid = p,
                                                          !.status = "running"]]]
    /\ UNCHANGED <<storeVars, kill_pull, ready_pull, run_blocks, kill_local,
                   sync_local, api, created, hostVars, restVars, timeVars>>

\* __run_single_task, the write: pid and status = running on the state it
\* read.  The Popen object is dropped on return, which reaps an ended child.
run_tasks_block_write(ty) ==
    /\ run_local[ty].pc = "write"
    /\ update_task_state(run_local[ty].task, run_local[ty].state)
    /\ procs' = IF procs[run_local[ty].proc] = "zombie"
                THEN [procs EXCEPT ![run_local[ty].proc] = "none"]
                ELSE procs
    /\ run_local' = [run_local EXCEPT ![ty] = Idle]
    /\ UNCHANGED <<files, worker, spawned, queueVars, kill_local, sync_local,
                   api, created, hostVars, restVars, timeVars>>

\* ------------------------------------------------------------ the worker
WorkerUnchanged ==
    UNCHANGED <<spawned, queueVars, localVars, api, created, hostVars, restVars,
                timeVars>>

Exit(p) ==
    /\ procs' = [procs EXCEPT ![p] = "zombie"]
    /\ worker' = [worker EXCEPT ![p] = Idle]

\* The child of a missing script: python3 ends with an error.
worker_exit(p) ==
    /\ procs[p] = "running"
    /\ worker[p].pc = "exit"
    /\ Exit(p)
    /\ UNCHANGED storeVars
    /\ WorkerUnchanged

\* How GPUProcess.run ends: "crash" is an exception outside the try (line
\* 268), "busy" a NoFreeRAMException or NoFreeGPUCardException out of _run,
\* "error" any other exception out of _run, "done" no exception.
Outcomes == {"crash", "busy", "error", "done"}

\* GPUProcess.run, lines 272-289: the log line of the except branch.
RollbackLogLine(outcome) ==
    IF outcome = "busy" THEN "Process not run now but will run later"
    ELSE "Error in task"

\* The launcher script and GPUProcess.run up to the end of _run.  The script
\* returns when the task does not exist.  Loading the arguments (under
\* 'await self.gpu_card', outside the try) raises when the input file is
\* missing: the process ends with no state write.  Otherwise _run succeeds
\* and _save_solution writes the output file, or _run raises and, in each
\* of the three except branches (lines 271-291), _rollback reads the state.
GPUProcess_run(p, outcome) ==
    /\ procs[p] = "running"
    /\ worker[p].pc = "run"
    /\ LET t == worker[p].task
           loaded == is_task_exist(t) /\ is_file_exist(input_args_filename(t))
       IN  IF ~loaded \/ outcome = "crash"
           THEN /\ outcome = "crash"
                /\ Exit(p)
                /\ UNCHANGED <<files, log>>
           ELSE IF outcome \in {"busy", "error"}
           THEN /\ worker' = [worker EXCEPT ![p] =
                                [pc |-> "write", task |-> t, cause |-> outcome,
                                 state |-> rollback(get_task_state(t))]]
                /\ log' = [log EXCEPT ![t] =
                             add_log_message(@, RollbackLogLine(outcome))]
                /\ UNCHANGED <<procs, files>>
           ELSE /\ worker' = [worker EXCEPT ![p] =
                                [pc |-> "finalize", task |-> t]]
                /\ files' = files \cup {output_args_filename(t)}
                /\ UNCHANGED <<procs, log>>
    /\ UNCHANGED <<store, ttl>>
    /\ WorkerUnchanged

\* _finalize with the test of the output file left out.
FinalStatusFinished(t) == "finished"

\* _finalize: status failed when the output file is missing, else finished.
FinalStatus(t) ==
    IF is_file_exist(output_args_filename(t)) THEN "finished" ELSE "failed"

\* _finalize, lines 112-116: the log line that goes with the status.
FinalLogLine(status) ==
    IF status = "finished" THEN "Task successfully completed"
    ELSE "Failed task processing"

\* _finalize, the read of the state and of the output file, and the log
\* line of the outcome.
finalize_read(p) ==
    /\ procs[p] = "running"
    /\ worker[p].pc = "finalize"
    /\ LET t == worker[p].task
       IN  IF is_task_exist(t)
           THEN /\ worker' = [worker EXCEPT ![p] =
                                [pc |-> "write", task |-> t, cause |-> "done",
                                 state |-> [get_task_state(t) EXCEPT
                                              !.status = FinalStatus(t)]]]
                /\ log' = [log EXCEPT ![t] =
                             add_log_message(@, FinalLogLine(FinalStatus(t)))]
                /\ UNCHANGED procs
           ELSE /\ Exit(p)
                /\ UNCHANGED log
    /\ UNCHANGED <<store, ttl, files>>
    /\ WorkerUnchanged

\* _finalize and _rollback, the write of the state; the process ends.
worker_write(p) ==
    /\ procs[p] = "running"
    /\ worker[p].pc = "write"
    /\ update_task_state(worker[p].task, worker[p].state)
    /\ Exit(p)
    /\ UNCHANGED files
    /\ WorkerUnchanged

\* ---------------------------------------------------------- specification
\* The API, the pull's scans, kill loop, remove loop and run loop, and the
\* workers: every writer of the task store.
Next ==
    \/ create_task("delays")
    \/ \E t \in TaskIds : load_input_args(t)
    \/ \E t \in TaskIds : run_task_check(t)
    \/ run_task_read
    \/ run_task_write
    \/ \E t \in TaskIds : kill_task_read(t)
    \/ kill_task_write
    \/ \E t \in TaskIds : accept_transfer_check(t)
    \/ accept_transfer_read
    \/ accept_transfer_write
    \/ \E t \in TaskIds : scan_killing_tasks(t)
    \/ \E t \in TaskIds : scan_ready_tasks(t)
    \/ \E t \in TaskIds : scan_accepted_tasks(t)
    \/ kill_tasks_read
    \/ kill_tasks_write
    \/ remove_tasks
    \/ run_tasks
    \/ \E ty \in TaskTypes : run_tasks_block_spawn(ty)
    \/ \E ty \in TaskTypes : run_tasks_block_write(ty)
    \/ \E p \in Pids : worker_exit(p)
    \/ \E p \in Pids, o \in Outcomes : GPUProcess_run(p, o)
    \/ \E p \in Pids : finalize_read(p)
    \/ \E p \in Pids : worker_write(p)

Spec == Init /\ [][Next]_vars

\* ------------------------------------------------- status and pid (C1, C2)
\* C1: in every state of the store and for every task, status running
\* implies pid >= 0 and status new or ready implies pid = -1.
PidMatchesStatus ==
    \A t \in all_task_ids :
        /\ store[t].status = "running" => store[t].pid >= 0
        /\ store[t].status \in {"new", "ready"} => store[t].pid = -1

\* The pull has launched a task (running under the pid of a spawned
\* process) while another task waits (new or ready, pid -1).
RunningAndWaitingStored ==
    /\ \E t \in all_task_ids : store[t].status = "running" /\ store[t].pid \in Pids
    /\ \E t \in all_task_ids : store[t].status \in {"new", "ready"}
                               /\ store[t].pid = -1

\* C2: every change of a task's stored status follows an edge of the
\* lifecycle (new->ready, ready->running, running->finished/failed/ready,
\* any->killed).
StatusFollowsLifecycle ==
    [][\A t \in TaskIds :
          LET from == store[t].status
              to == store'[t].status
          IN  (from # "absent" /\ to # "absent" /\ to # from) =>
                \/ from = "new" /\ to = "ready"
                \/ from = "ready" /\ to = "running"
                \/ from = "running" /\ to \in {"finished", "failed", "ready"}
                \/ to = "killed"]_vars

\* ------------------------------------------------ the run loop (C3, C4, C6)
\* The task of the subprocess spawned by the step, when the step spawns one.
SpawnedTask == worker'[spawned'].task

\* C3: the run loop spawns a subprocess only for a task that exists, whose
\* status is ready and whose input file and script file are present.
SpawnOnlyReadyTask ==
    [][spawned' # spawned =>
          /\ is_task_exist(SpawnedTask)
          /\ store[SpawnedTask].status = "ready"
          /\ is_file_exist(input_args_filename(SpawnedTask))
          /\ is_file_exist(script_filename(SpawnedTask))]_vars

\* C4: the run loop spawns a subprocess only when fewer tasks are stored as
\* running than the host has CPU cores and the host has RAM available.
SpawnOnlyUnderAdmission ==
    [][spawned' # spawned => is_possible_run_any_task]_vars

\* C6: the run loop of a type launches the head of ready_pull[type] and
\* removes it from that queue; it takes nothing from kill_pull or
\* accepted_pull.
SpawnTakesFromReadyPull ==
    [][spawned' # spawned =>
          /\ kill_pull' = kill_pull
          /\ accepted_pull' = accepted_pull
          /\ \E ty \in TaskTypes :
                /\ ready_pull[ty] # NoQueue
                /\ ready_pull[ty] # <<>>
                /\ Head(ready_pull[ty]) = SpawnedTask
                /\ ready_pull'[ty] = Tail(ready_pull[ty])]_vars

\* ------------------------------------------------------- the kill loop (C8)
\* C8: the kill loop performs the transition to killed (state write and log
\* line 'Task was killed') at most once per task.
KilledOnce ==
    \A t \in TaskIds :
        log[t].exists => log[t].count["Task was killed"] <= 1

\* ------------------------------------------------ the file store (C9, C10)
\* The API, the scans, the remove loop, the run loop, the workers, the expiry
\* of State keys and the synchronization of the file store with the task
\* store: every writer of the file store and every step that adds or drops a
\* task.  The file store starts with a file that no task names.
NextFiles ==
    \/ create_task("delays")
    \/ \E t \in TaskIds : load_input_args(t)
    \/ \E t \in TaskIds : run_task_check(t)
    \/ run_task_read
    \/ run_task_write
    \/ \E t \in TaskIds : accept_transfer_check(t)
    \/ accept_transfer_read
    \/ accept_transfer_write
    \/ \E t \in TaskIds : expire(t)
    \/ \E t \in TaskIds : scan_ready_tasks(t)
    \/ \E t \in TaskIds : scan_accepted_tasks(t)
    \/ remove_tasks
    \/ synchronize_read
    \/ synchronize_list
    \/ synchronize_delete
    \/ run_tasks
    \/ \E ty \in TaskTypes : run_tasks_block_spawn(ty)
    \/ \E ty \in TaskTypes : run_tasks_block_write(ty)
    \/ \E p \in Pids : worker_exit(p)
    \/ \E p \in Pids, o \in Outcomes : GPUProcess_run(p, o)
    \/ \E p \in Pids : finalize_read(p)
    \/ \E p \in Pids : worker_write(p)

SpecFiles ==
    /\ \E seeded \in BOOLEAN : Start(seeded, TRUE, TRUE, MaxPid)
    /\ [][NextFiles]_vars

\* The step that completes a cycle of the synchronization.
SynchronizeCompletes == sync_local.pc = "delete" /\ sync_local'.pc = "idle"

\* f is one of the four filename references of a task in the store.
IsReferenced(f) == \E t \in all_task_ids : f \in FilenameReferences(t)

\* C9: the synchronization never deletes a file that is, at the moment of
\* the deletion, one of the four filename references of a task in the store.
SynchronizeKeepsReferenced ==
    [][SynchronizeCompletes =>
          \A f \in files \ files' : ~IsReferenced(f)]_vars

\* C10 as stated: when a cycle completes, every listed file that no task
\* state references has been deleted, and every remaining file is referenced
\* by a task state or was created during the cycle.
SynchronizeLeavesReferenced ==
    [][SynchronizeCompletes =>
          /\ \A f \in sync_local.listed : ~IsReferenced(f) => f \notin files'
          /\ \A f \in files' : IsReferenced(f) \/ f \notin sync_local.before]_vars

\* C10: when a cycle completes, every listed file that no task state named
\* when the cycle read the task store has been deleted, and every remaining
\* file was named by a task state at that read or is not in the cycle's
\* listing (it was created after it).
SynchronizeLeavesKnown ==
    [][SynchronizeCompletes =>
          /\ \A f \in sync_local.listed :
                f \notin sync_local.redis => f \notin files'
          /\ \A f \in files' :
                f \in sync_local.redis \/ f \notin sync_local.listed]_vars

\* A cycle has deleted the file no task names and has left the input file
\* of the stored task.
OrphanDeletedReferencedKept ==
    /\ sync_local = Idle
    /\ OrphanFile \notin files
    /\ is_task_exist(SeedTask)
    /\ input_args_filename(SeedTask) \in files

\* ------------------------------------------------------- fair launching (C5)
\* The API, the ready and accepted scans, the remove loop, the run loop and
\* the workers, on a host with RAM available.  The pull's loops are
\* scheduled fairly: a loop that can take a step takes one.
InitFair == \E seeded \in BOOLEAN : Start(seeded, FALSE, TRUE, MaxPid)

PullNext ==
    \/ \E t \in TaskIds : scan_ready_tasks(t)
    \/ \E t \in TaskIds : scan_accepted_tasks(t)
    \/ remove_tasks
    \/ run_tasks
    \/ \E ty \in TaskTypes : run_tasks_block_spawn(ty)
    \/ \E ty \in TaskTypes : run_tasks_block_write(ty)

NextFair ==
    \/ create_task("delays")
    \/ \E t \in TaskIds : load_input_args(t)
    \/ \E t \in TaskIds : run_task_check(t)
    \/ run_task_read
    \/ run_task_write
    \/ \E t \in TaskIds : accept_transfer_check(t)
    \/ accept_transfer_read
    \/ accept_transfer_write
    \/ PullNext
    \/ \E p \in Pids : worker_exit(p)
    \/ \E p \in Pids, o \in Outcomes : GPUProcess_run(p, o)
    \/ \E p \in Pids : finalize_read(p)
    \/ \E p \in Pids : worker_write(p)

Fairness ==
    /\ \A t \in PullTaskIds : WF_vars(scan_ready_tasks(t))
    /\ \A t \in PullTaskIds : WF_vars(scan_accepted_tasks(t))
    /\ WF_vars(remove_tasks)
    /\ WF_vars(run_tasks)
    /\ \A ty \in TaskTypes : WF_vars(run_tasks_block_spawn(ty))
    /\ \A ty \in TaskTypes : WF_vars(run_tasks_block_write(ty))

SpecFair == InitFair /\ [][NextFair]_vars /\ Fairness

\* C5: a task that is ready, with its input file and its script file present
\* and global admission holding, does not stay so for ever: the pull
\* launches it (its status becomes running).
ReadyIsLaunched ==
    \A t \in PullTaskIds :
        is_possible_run_task(t) ~>
            (store[t].status = "running" \/ ~is_possible_run_task(t))

\* ------------------------------------------------- polling periods (C7)
\* Time is counted in polling periods of SLEEP_TIME_SECONDS.  scan_killing_tasks
\* runs one cycle per period and kill_tasks one iteration per period (each
\* sleeps one period after its cycle or iteration); the period ends when both
\* have run.  age[t] counts the periods ended since POST /kill wrote the flag
\* of a running task whose process was alive.
Loops == {"scan_killing_tasks", "kill_tasks"}

Tick ==
    /\ slept = Loops
    /\ kill_local = Idle
    /\ slept' = {}
    /\ age' = [t \in TaskIds |->
                 IF age[t] >= 0 /\ age[t] < MaxAge THEN age[t] + 1 ELSE age[t]]
    /\ UNCHANGED <<storeVars, osVars, queueVars, localVars, api, created,
                   hostVars, restVars>>

\* POST /kill, the handler's write, with the moment of the flag recorded.
kill_task_write_timed ==
    /\ kill_task_write_store
    /\ age' = IF /\ is_task_exist(api.task)
                 /\ age[api.task] = -1
                 /\ store[api.task].status = "running"
                 /\ api.state.status = "running"
                 /\ ProcessStatus(api.state.pid) = "running"
              THEN [age EXCEPT ![api.task] = 0]
              ELSE age
    /\ UNCHANGED slept

\* The orders in which a scan cycle meets the task ids (KEYS has no order).
TaskOrders ==
    {o \in [1..Cardinality(TaskIds) -> TaskIds] :
        \A i, j \in DOMAIN o : i # j => o[i] # o[j]}

RECURSIVE KillScanCycle(_, _)
KillScanCycle(q, order) ==
    IF order = <<>> THEN q
    ELSE KillScanCycle(KillScanPut(q, Head(order)), Tail(order))

\* scan_killing_tasks, one whole cycle, then the sleep.
scan_killing_tasks_cycle ==
    /\ "scan_killing_tasks" \notin slept
    /\ \E o \in TaskOrders : kill_pull' = KillScanCycle(kill_pull, o)
    /\ slept' = slept \cup {"scan_killing_tasks"}
    /\ UNCHANGED <<accepted_pull, ready_pull, run_blocks, age>>
    /\ PullUnchanged

\* kill_tasks, lines 147-149: kill_pull is empty, sleep.
kill_tasks_empty ==
    /\ "kill_tasks" \notin slept
    /\ kill_local = Idle
    /\ kill_pull = <<>>
    /\ slept' = slept \cup {"kill_tasks"}
    /\ UNCHANGED <<queueVars, age>>
    /\ PullUnchanged

\* kill_tasks, lines 151-154: one id, __kill_task, sleep.
kill_tasks_read_timed ==
    /\ "kill_tasks" \notin slept
    /\ kill_tasks_read_step
    /\ slept' = slept \cup {"kill_tasks"}
    /\ UNCHANGED age

\* The API and the pull without the remove loop, from the store that holds
\* the finished task; the worker of a launched task computes throughout.
InitTimed == Start(TRUE, FALSE, TRUE, MaxPid)

NextTimed ==
    \/ create_task("delays")
    \/ \E t \in TaskIds : load_input_args(t)
    \/ \E t \in TaskIds : run_task_check(t)
    \/ run_task_read
    \/ run_task_write
    \/ \E t \in TaskIds : accept_transfer_check(t)
    \/ accept_transfer_read
    \/ accept_transfer_write
    \/ \E t \in TaskIds : kill_task_read(t)
    \/ kill_task_write_timed
    \/ \E t \in TaskIds : scan_ready_tasks(t)
    \/ \E t \in TaskIds : scan_accepted_tasks(t)
    \/ run_tasks
    \/ \E ty \in TaskTypes : run_tasks_block_spawn(ty)
    \/ \E ty \in TaskTypes : run_tasks_block_write(ty)
    \/ scan_killing_tasks_cycle
    \/ kill_tasks_empty
    \/ kill_tasks_read_timed
    \/ kill_tasks_write
    \/ Tick

SpecTimed == InitTimed /\ [][NextTimed]_vars

\* C7: more than two polling periods after POST /kill wrote the flag of a
\* running task whose process was alive, the process has been killed, the
\* stored status is killed and the log holds 'Task was killed'.
KilledWithinTwoPeriods ==
    \A t \in TaskIds :
        age[t] > 2 =>
            /\ store[t].status = "killed"
            /\ ProcessStatus(store[t].pid) # "running"
            /\ log[t].exists /\ log[t].count["Task was killed"] >= 1

\* ------------------------------------------------ the remove loop (C11, C12)
\* The step of remove_tasks that takes t from accepted_pull (the run loop's
\* take of the same queue spawns a subprocess).
RemoveTakes(t) ==
    /\ accepted_pull # <<>>
    /\ Head(accepted_pull) = t
    /\ accepted_pull' = Tail(accepted_pull)
    /\ spawned' = spawned

\* C11: once the remove loop has processed a task whose state is accepted,
\* the task's State record and Log are gone and none of its four artifact
\* files exists.
RemovedTaskIsGone ==
    [][\A t \in TaskIds :
        (RemoveTakes(t) /\ is_task_exist(t) /\ store[t].is_accepted)
        => /\ store'[t] = NoTask
           /\ log'[t] = NoLog
           /\ FilenameReferences(t) \cap files' = {}]_vars

\* C12: the remove loop deletes the log and the files of a task only when
\* the state it re-reads at the take is found and has is_accepted set; an id
\* whose task is not found or is not accepted is skipped and nothing is
\* deleted, and a removal touches the taken task only.
RemoveOnlyAccepted ==
    [][\A t \in TaskIds :
        RemoveTakes(t)
        => /\ ~(is_task_exist(t) /\ store[t].is_accepted)
                => UNCHANGED <<store, ttl, log, files>>
           /\ \A u \in TaskIds \ {t} : log'[u] = log[u] /\ store'[u] = store[u]
           /\ files \ files' \subseteq all_filenames(t)]_vars

\* An accepted task after its removal: the log and the files are gone.
AcceptedTaskRemoved ==
    /\ is_task_exist(SeedTask)
    /\ store[SeedTask].is_accepted
    /\ spawned = 0
    /\ log[SeedTask] = NoLog
    /\ all_filenames(SeedTask) \cap files = {}

\* ------------------------------------------------------ modified time (C13)
\* The wall clock passes to the next second.
ClockTick ==
    /\ clock < MaxClock
    /\ clock' = clock + 1
    /\ UNCHANGED <<storeVars, osVars, queueVars, localVars, api, created,
                   ram_available, timeVars, restVars>>

\* POST /create, /kill and /accept and the kill loop write State records
\* while the clock runs, from the store that holds the finished task.
NextClock ==
    \/ ClockTick
    \/ create_task("delays")
    \/ \E t \in TaskIds : kill_task_read(t)
    \/ kill_task_write
    \/ \E t \in TaskIds : accept_transfer_check(t)
    \/ accept_transfer_read
    \/ accept_transfer_write
    \/ \E t \in TaskIds : scan_killing_tasks(t)
    \/ kill_tasks_read
    \/ kill_tasks_write

SpecClock == InitTimed /\ [][NextClock]_vars

\* The step is a write of the State record of t: add_task of a new task, or
\* update_task_state by the API handler or by the kill loop.
StateWritten(t) ==
    \/ ~is_task_exist(t) /\ store'[t] # NoTask
    \/ /\ is_task_exist(t)
       /\ \/ api.pc \in {"kill_write", "accept_write"}
             /\ api.task = t /\ api' = Idle
          \/ kill_local.pc = "write" /\ kill_local.task = t
             /\ kill_local' = Idle

\* C13: every write of the State record of a task stores a modified time
\* that is the clock at the write and is strictly greater than the modified
\* time the previous write of the task stored.
ModifiedIsWriteTimeAndGrows ==
    [][\A t \in TaskIds :
        StateWritten(t)
        => /\ store'[t].modified_unix_time = clock
           /\ is_task_exist(t)
                => store'[t].modified_unix_time > store[t].modified_unix_time]_vars

\* ------------------------------------------------- the worker (C14 - C16)
\* The worker p ends with the write of the state it holds (the kill loop's
\* take of kill_pull ends a worker with no write).
WorkerWrites(p) ==
    /\ worker[p].pc = "write"
    /\ worker'[p] = Idle
    /\ kill_pull' = kill_pull
    /\ procs[p] = "running"
    /\ procs'[p] = "zombie"
    /\ is_task_exist(worker[p].task)

\* C14: in the worker only a lack of RAM or of a free GPU card leads to the
\* rollback (status ready, pid -1); after any other error out of the run the
\* worker writes status failed and never ready.
OnlyBusyRollsBack ==
    [][\A p \in Pids :
        WorkerWrites(p)
        => LET t == worker[p].task
           IN  /\ worker[p].cause = "busy"
                    => store'[t].status = "ready" /\ store'[t].pid = -1
               /\ worker[p].cause = "error"
                    => store'[t].status = "failed"]_vars

\* The worker p passes from the read of _finalize to its write.
Finalizes(p) ==
    /\ worker[p].pc = "finalize"
    /\ worker'[p].pc = "write"

\* C15: _finalize decides finished, with the log line 'Task successfully
\* completed', when the output file of the task exists at that moment, and
\* failed, with the log line 'Failed task processing', when it does not;
\* the status the worker then writes is the one decided.
FinalizeFollowsOutputFile ==
    [][\A p \in Pids :
        /\ Finalizes(p)
           => LET t == worker[p].task
                  present == output_args_filename(t) \in files
                  decided == worker'[p].state.status
                  line == IF present THEN "Task successfully completed"
                          ELSE "Failed task processing"
                  before == IF log[t].exists THEN log[t].count[line] ELSE 0
              IN  /\ decided = (IF present THEN "finished" ELSE "failed")
                  /\ log'[t].exists
                  /\ log'[t].count[line] = Saturate(before)
        /\ (WorkerWrites(p) /\ worker[p].cause = "done")
           => /\ worker[p].state.status \in {"finished", "failed"}
              /\ store'[worker[p].task].status = worker[p].state.status]_vars

\* A worker has found its output file missing and has written failed.
FailedWithoutOutputFile ==
    \E t \in TaskIds :
        /\ is_task_exist(t)
        /\ store[t].status = "failed"
        /\ log[t].exists
        /\ log[t].count["Failed task processing"] > 0
        /\ output_args_filename(t) \notin files

\* The worker p has loaded its arguments and has gone through _run.
WorkerProceeds(p) ==
    /\ worker[p].pc = "run"
    /\ worker'[p].pc \in {"write", "finalize"}

\* C16: the worker loads its arguments and runs the kernel only when its
\* task exists, the stored status is ready and the input file and the
\* script file are present.
WorkerRunsOnlyReadyTask ==
    [][\A p \in Pids :
        WorkerProceeds(p)
        => LET t == worker[p].task
           IN  /\ is_task_exist(t)
               /\ store[t].status = "ready"
               /\ is_file_exist(input_args_filename(t))
               /\ is_file_exist(script_filename(t))]_vars

\* ------------------------------------------------- rollback and retry (C17)
\* The launch path under fair scheduling of the pull's loops, with process
\* ids for a first launch and a relaunch.
SpecRetry ==
    Start(TRUE, FALSE, TRUE, MaxRelaunch) /\ [][NextFair]_vars /\ Fairness

\* The worker of t found no free RAM or GPU card and has rolled the state
\* back; no subprocess works on t, and the pull can spawn another one.
RolledBack(t) ==
    /\ spawned + 1 \in Pids
    /\ is_task_exist(t)
    /\ store[t].status = "ready"
    /\ store[t].pid = -1
    /\ log[t].exists
    /\ log[t].count["Process not run now but will run later"] > 0
    /\ \A p \in Pids : procs[p] = "running" => worker[p].task # t

\* A subprocess of the pull works on t.
Launched(t) ==
    \E p \in Pids : procs[p] = "running" /\ worker[p].task = t

scan_killing_tasks_enumerate ==
    /\ pull = "running"
    /\ scan_local = Idle
    /\ all_task_ids # {}
    /\ scan_local' = [pc |-> "get", ids |-> all_task_ids]
    /\ UNCHANGED <<pull, response, loads, data, state_keys, appends, call,
                   queueVars, timeVars, hostVars>>
    /\ UNCHANGED <<storeVars, osVars, localVars, api, created>>

\* scan_killing_tasks, lines 57-65, for one enumerated id: get_task_state
\* raises ValueError when the task is not found; nothing in the loop or in
\* run_pull catches it, and the task group cancels every loop of the pull.
scan_killing_tasks_get(t) ==
    /\ pull = "running"
    /\ scan_local.pc = "get"
    /\ t \in scan_local.ids
    /\ IF is_task_exist(t)
       THEN /\ kill_pull' = KillScanPut(kill_pull, t)
            /\ scan_local' = IF scan_local.ids = {t} THEN Idle
                              ELSE [scan_local EXCEPT !.ids = @ \ {t}]
            /\ pull' = pull
       ELSE /\ pull' = "cancelled"
            /\ scan_local' = Idle
            /\ UNCHANGED kill_pull
    /\ UNCHANGED <<accepted_pull, ready_pull, run_blocks, timeVars, hostVars>>
    /\ UNCHANGED <<storeVars, osVars, localVars, api, created, response,
                   loads, data, state_keys, appends, call>>

\* kill_tasks, a loop of the task group: it runs until the group is
\* cancelled.
kill_tasks_read_running == pull = "running" /\ kill_tasks_read
kill_tasks_write_running == pull = "running" /\ kill_tasks_write

\* The API (create, kill), key expiry, and the kill path of the pull while
\* the pull runs; the store is empty or holds the finished task.
NextScan ==
    \/ create_task("delays")
    \/ \E t \in TaskIds : kill_task_read(t)
    \/ kill_task_write
    \/ \E t \in TaskIds : expire(t)
    \/ scan_killing_tasks_enumerate
    \/ \E t \in TaskIds : scan_killing_tasks_get(t)
    \/ kill_tasks_read_running
    \/ kill_tasks_write_running

SpecScan == InitFair /\ [][NextScan]_vars

\* C18: no loop of the pull stops because of an error on one task: the pull
\* keeps running when a task disappears between a scan's enumeration of the
\* task ids and its read of the task's state.
PullKeepsRunning == pull = "running"

\* --------------------------------------------------------- POST /run (C19)
\* The handler of POST /run writes the state of t.
RunWrites(t) ==
    /\ api.pc = "run_write"
    /\ api.task = t
    /\ api' = Idle
    /\ is_task_exist(t)

\* C19: POST /run sets the status of a task to ready only if at that time
\* the stored status is new and the input file and the script file exist.
RunSetsReadyOnlyFromNew ==
    [][\A t \in TaskIds :
        (RunWrites(t) /\ store'[t].status = "ready")
        => /\ store[t].status = "new"
           /\ is_file_exist(input_args_filename(t))
           /\ is_file_exist(script_filename(t))]_vars

\* ------------------------------------------------------ POST /create (C20)
\* One user's POST /create, /load-args and /run, and key expiry, over task
\* ids enough to pass the cap.
InitCreate ==
    /\ \E seeded \in BOOLEAN : StartOf(UserTaskIds, seeded, FALSE, TRUE, MaxPid)
    /\ call = Idle

NextCreate ==
    \/ create_task("delays")
    \/ \E t \in TaskIds : load_input_args(t)
    \/ \E t \in TaskIds : run_task_check(t)
    \/ run_task_read
    \/ run_task_write
    \/ \E t \in TaskIds : expire(t)

SpecCreate == InitCreate /\ [][NextCreate]_vars

\* C20: POST /create adds a record with status new, with its log, and
\* answers 200 only when the user has at most MAXIMAL_TASKS_FOR_USER tasks,
\* the cap itself included; it answers 429 only when the user has more, and
\* then adds no record and no log.
CreateFollowsCap ==
    [][(created' # created \/ response' # response)
       => IF Cardinality(all_task_ids) <= MAXIMAL_TASKS_FOR_USER
          THEN /\ response' = 200
               /\ \E t \in TaskIds :
                      /\ created' = created \cup {t}
                      /\ ~is_task_exist(t)
                      /\ store'[t].status = "new"
                      /\ log'[t].exists
          ELSE /\ response' = 429
               /\ UNCHANGED <<store, log, created>>]_vars

\* The user has one task more than the cap (the last one was created at the
\* cap) and a further POST /create was answered 429.
RejectedAboveCap ==
    /\ response = 429
    /\ Cardinality(all_task_ids) = MAXIMAL_TASKS_FOR_USER + 1
    /\ Cardinality(created) >= MAXIMAL_TASKS_FOR_USER

\* --------------------------------------------------- POST /load-args (C21)
\* load_input_args with the cap itself refused.
IsTooLargeAtCap(len) == len >= MaxInputBytes

\* load_input_args, lines 238-240: the body is longer than the cap.
IsTooLarge(len) == len > MaxInputBytes

\* The answer to a request: the status code, with the task and the body the
\* request named.
Answered(t, body, code) ==
    [pc |-> "answered", task |-> t, body |-> body, code |-> code]

LoadUnchanged ==
    UNCHANGED <<osVars, queueVars, localVars, api, created, hostVars,
                timeVars, scan_local, pull, response, state_keys, appends,
                call>>

\* POST /load-args of client r, up to the read of the state: 400 when the
\* task is not found (check_task_exist), 413 when the body is too large,
\* 400 when the status read is not new.
load_input_args_read(r, t, body) ==
    /\ loads[r].pc \in {"idle", "answered"}
    /\ loads' = [loads EXCEPT ![r] =
                   IF ~is_task_exist(t) THEN Answered(t, body, 400)
                   ELSE IF IsTooLarge(body) THEN Answered(t, body, 413)
                   ELSE IF get_task_state(t).status # "new"
                   THEN Answered(t, body, 400)
                   ELSE [pc |-> "exists", task |-> t, body |-> body,
                         type_ |-> get_task_state(t).type_]]
    /\ UNCHANGED <<storeVars, data>>
    /\ LoadUnchanged

\* save_binary_data, lines 35-37: FileExistsError when the path exists (the
\* handler does not catch it: the answer is 500).
load_input_args_exists(r) ==
    /\ loads[r].pc = "exists"
    /\ loads' = [loads EXCEPT ![r] =
                   IF is_file_exist(input_args_filename(@.task))
                   THEN Answered(@.task, @.body, 500)
                   ELSE [@ EXCEPT !.pc = "save"]]
    /\ UNCHANGED <<storeVars, data>>
    /\ LoadUnchanged

\* save_binary_data, lines 39-40: open the path for writing (which creates
\* the file or truncates it) and write the body.
load_input_args_save(r) ==
    /\ loads[r].pc = "save"
    /\ files' = files \cup {input_args_filename(loads[r].task)}
    /\ data' = [data EXCEPT ![loads[r].task] = loads[r].body]
    /\ loads' = [loads EXCEPT ![r].pc = "log"]
    /\ UNCHANGED <<store, ttl, log>>
    /\ LoadUnchanged

\* load_input_args, lines 257-262: the log line; the request of a task type
\* without launcher template is answered 200.
load_input_args_log(r) ==
    /\ loads[r].pc = "log"
    /\ log' = [log EXCEPT ![loads[r].task] =
                 add_log_message(@, "Input arguments was loaded.")]
    /\ loads' = [loads EXCEPT ![r] =
                   IF @.type_ = "delays" THEN [@ EXCEPT !.pc = "script"]
                   ELSE Answered(@.task, @.body, 200)]
    /\ UNCHANGED <<store, ttl, files, data>>
    /\ LoadUnchanged

\* load_input_args, lines 262-268: DelaysRunnerScriptFile(...).save() writes
\* the launcher script under script_filename; 200.
load_input_args_script(r) ==
    /\ loads[r].pc = "script"
    /\ files' = files \cup {script_filename(loads[r].task)}
    /\ loads' = [loads EXCEPT ![r] = Answered(@.task, @.body, 200)]
    /\ UNCHANGED <<store, ttl, log, data>>
    /\ LoadUnchanged

\* Two clients' POST /load-args, POST /create of a task with and of a task
\* without launcher template, and key expiry; the store is empty or holds
\* the finished task.
NextLoad ==
    \/ create_task("delays")
    \/ create_task("location")
    \/ \E r \in LoadIds, t \in TaskIds, body \in Bodies :
          load_input_args_read(r, t, body)
    \/ \E r \in LoadIds : load_input_args_exists(r)
    \/ \E r \in LoadIds : load_input_args_save(r)
    \/ \E r \in LoadIds : load_input_args_log(r)
    \/ \E r \in LoadIds : load_input_args_script(r)
    \/ \E t \in TaskIds : expire(t)

SpecLoad == InitFair /\ [][NextLoad]_vars

\* C21: POST /load-args on a task that exists is answered 413 exactly when
\* the body is longer than the cap, and 400 when the body is not and the
\* status read is not new; a request answered otherwise than 200 has written
\* no file and changed no state; a request writes its body under the task's
\* input_args_filename, and when it is answered 200 that file exists and,
\* for the type delays, so does script_filename.
LoadArgsFollowsCapAndStatus ==
    [][\A r \in LoadIds :
        /\ (loads'[r] # loads[r] /\ loads'[r].pc = "answered")
           => LET a == loads'[r]
                  t == a.task
              IN  /\ is_task_exist(t) /\ loads[r].pc \in {"idle", "answered"}
                       => /\ a.code = 413 <=> a.body > MaxInputBytes
                          /\ (a.body <= MaxInputBytes /\ store[t].status # "new")
                                => a.code = 400
                  /\ a.code = 413 => a.body > MaxInputBytes
                  /\ a.code # 200
                       => /\ loads[r].pc \in {"idle", "answered", "exists"}
                          /\ UNCHANGED <<store, ttl, log, files, data>>
                  /\ a.code = 200
                       => /\ a.body <= MaxInputBytes
                          /\ input_args_filename(t) \in files'
                          /\ loads[r].type_ = "delays"
                                => script_filename(t) \in files'
        /\ (loads[r].pc = "save" /\ loads'[r].pc = "log")
           => /\ input_args_filename(loads[r].task) \in files'
              /\ data'[loads[r].task] = loads[r].body
        /\ (loads'[r] # loads[r]
            /\ loads[r].pc \in {"idle", "answered", "exists"})
           => UNCHANGED <<store, ttl, log, files, data>>]_vars

\* One client's body of exactly the cap was accepted for a task with
\* launcher template (the body and the script are stored) and the other's
\* body of one byte more was answered 413.
CapAcceptedAboveCapRejected ==
    \E t \in TaskIds :
        /\ loads[1] = Answered(t, MaxInputBytes, 200)
        /\ data[t] = MaxInputBytes
        /\ {input_args_filename(t), script_filename(t)} \subseteq files
        /\ loads[2] = Answered(t, MaxInputBytes + 1, 413)

\* ------------------------------------------------------ POST /accept (C22)
\* POST /accept, the decorator's HTTPException (lines 146-157): the status
\* is not finished or the output file is missing; the handler is not run.
accept_transfer_rejected(t) ==
    /\ api = Idle
    /\ is_task_exist(t)
    /\ ~IsFinishedTask(t)
    /\ api' = [pc |-> "rejected", task |-> t, code |-> 400]
    /\ ApiUnchanged

\* The rejected request is answered.
accept_transfer_answer ==
    /\ api.pc = "rejected"
    /\ api' = Idle
    /\ ApiUnchanged

\* POST /create, /kill and /accept with its rejections, and the kill path of
\* the pull; the store is empty or holds the finished task.
NextAccept ==
    \/ create_task("delays")
    \/ \E t \in TaskIds : kill_task_read(t)
    \/ kill_task_write
    \/ \E t \in TaskIds : scan_killing_tasks(t)
    \/ kill_tasks_read
    \/ kill_tasks_write
    \/ \E t \in TaskIds : accept_transfer_check(t)
    \/ \E t \in TaskIds : accept_transfer_rejected(t)
    \/ accept_transfer_answer
    \/ accept_transfer_read
    \/ accept_transfer_write

SpecAccept == InitFair /\ [][NextAccept]_vars

\* C22 as stated: POST /accept on a task whose status is finished, failed
\* or killed and whose output file is present is not rejected.
AcceptTakesTerminal ==
    [][\A t \in TaskIds :
        (api = Idle /\ api'.pc \in {"accept_read", "rejected"}
         /\ api'.task = t /\ IsTerminalTask(t))
        => api'.pc = "accept_read"]_vars

\* C22: POST /accept on a task in the store goes on to its handler exactly
\* when the status is finished and the output file is present; the handler
\* then sets is_accepted on the stored record; a rejected request leaves
\* the store and the file store unchanged.
AcceptTakesFinished ==
    [][\A t \in TaskIds :
        /\ (api = Idle /\ api'.pc \in {"accept_read", "rejected"}
            /\ api'.task = t)
           => /\ api'.pc = "accept_read"
                   <=> (store[t].status = "finished"
                        /\ output_args_filename(t) \in files)
              /\ UNCHANGED <<store, ttl, log, files>>
        /\ (api.pc = "rejected" /\ api.task = t /\ api' = Idle)
           => UNCHANGED <<store, ttl, log, files>>
        /\ (api.pc = "accept_write" /\ api.task = t /\ api' = Idle
            /\ is_task_exist(t))
           => store'[t].is_accepted]_vars

\* POST /accept has set is_accepted on the finished task, and a later
\* POST /accept on a task that is not finished is being rejected.
AcceptedAndRejected ==
    /\ is_task_exist(SeedTask)
    /\ store[SeedTask].is_accepted
    /\ store[SeedTask].status = "finished"
    /\ api.pc = "rejected"
    /\ store[api.task].status # "finished"

\* -------------------------------------------------------- POST /kill (C23)
\* C23: the write of POST /kill sets is_need_kill on the stored record and
\* leaves its status, pid, is_accepted and type as they were in the store
\* immediately before the write (the filename references are fixed per task
\* id), whatever the pull and the workers wrote since the handler's read.
KillChangesOnlyFlag ==
    [][\A t \in TaskIds :
        (api.pc = "kill_write" /\ api.task = t /\ api' = Idle
         /\ is_task_exist(t))
        => /\ store'[t].is_need_kill
           /\ store'[t].status = store[t].status
           /\ store'[t].pid = store[t].pid
           /\ store'[t].is_accepted = store[t].is_accepted
           /\ store'[t].type_ = store[t].type_]_vars

\* ------------------------------------------------ Storage.add_task (C24)
\* Storage.add_task called with any user id and task id (POST /create calls
\* it with a new task id): KeyError when the task exists (the answer of
\* POST /create is then 500), else the writes and 200.
add_task(u, t, type) ==
    /\ IF AddTaskRaises(t)
       THEN /\ response' = 500
            /\ UNCHANGED <<store, ttl, log, state_keys, created>>
       ELSE /\ AddTaskWrites(u, t, type)
            /\ created' = created \cup {t}
            /\ response' = 200
    /\ UNCHANGED <<files, osVars, queueVars, localVars, api, hostVars,
                   timeVars, scan_local, pull, loads, data, appends, call>>

\* The Log key expires (its expiry is set when add_log_message creates the
\* key and is never renewed).
log_expire(t) ==
    /\ log[t].exists
    /\ log[t].expires
    /\ log' = [log EXCEPT ![t] = NoLog]
    /\ UNCHANGED <<store, ttl, files, osVars, queueVars, localVars, api,
                   created, hostVars, restVars, timeVars>>

\* add_log_message of process a, line 81: is there a key Log:{task_id}.
add_log_message_keys(a, t) ==
    /\ appends[a] = Idle
    /\ is_task_exist(t)
    /\ appends' = [appends EXCEPT ![a] =
                     [pc |-> "write", task |-> t, found |-> log[t].exists]]
    /\ UNCHANGED <<storeVars, osVars, queueVars, localVars, api, created,
                   hostVars, timeVars, scan_local, pull, response, loads,
                   data, state_keys, call>>

\* add_log_message of process a, lines 82-94: with no key found, SET the key
\* to the line (SET replaces the value of a key) and give it its expiry;
\* else APPEND the line (APPEND creates a missing key, with no expiry).
add_log_message_write(a) ==
    /\ appends[a].pc = "write"
    /\ LET t == appends[a].task
       IN  log' = [log EXCEPT ![t] =
                     IF ~appends[a].found
                     THEN add_log_message(NoLog, AppenderLine[a])
                     ELSE IF log[t].exists
                     THEN add_log_message(log[t], AppenderLine[a])
                     ELSE [add_log_message(NoLog, AppenderLine[a])
                             EXCEPT !.expires = FALSE]]
    /\ appends' = [appends EXCEPT ![a] = Idle]
    /\ UNCHANGED <<store, ttl, files, osVars, queueVars, localVars, api,
                   created, hostVars, timeVars, scan_local, pull, response,
                   loads, data, state_keys, call>>

\* The task store under add_task with any user id and task id, POST /kill
\* (update_task_state) and the expiry of State keys and Log keys.
NextStore ==
    \/ \E u \in Users, t \in TaskIds : add_task(u, t, "delays")
    \/ \E t \in TaskIds : kill_task_read(t)
    \/ kill_task_write
    \/ \E t \in TaskIds : expire(t)
    \/ \E t \in TaskIds : log_expire(t)

SpecStore == InitFair /\ [][NextStore]_vars

\* The State keys of task t.
StateKeysOf(keys, t) == {k \in keys : k[2] = t}

\* C24: add_task on a task id that has a record fails and leaves the record,
\* its key and its log unchanged; after a successful add_task the task has
\* exactly one State key, under the user id given, and its log holds 'Task
\* was created'.
AddTaskOncePerTaskId ==
    [][/\ (response' = 500 /\ response # 500)
          => UNCHANGED <<store, ttl, log, state_keys>>
       /\ \A u \in Users, t \in TaskIds :
            (<<u, t>> \in state_keys' \ state_keys)
            => /\ ~is_task_exist(t)
               /\ StateKeysOf(state_keys', t) = {<<u, t>>}
               /\ store'[t].status = "new"
               /\ log'[t].exists
               /\ log'[t].count["Task was created"] >= 1
       /\ \A t \in TaskIds :
            ((response' # response \/ created' # created) /\ is_task_exist(t))
            => /\ store'[t] = store[t]
               /\ log'[t] = log[t]
               /\ StateKeysOf(state_keys', t) = StateKeysOf(state_keys, t)]_vars

\* add_task has added the task t2 for user u2, and a further add_task on
\* that task id has failed: the key of u2 is the only State key of t2.
SecondAddTaskFailed ==
    /\ response = 500
    /\ is_task_exist("t2")
    /\ StateKeysOf(state_keys, "t2") = {<<"u2", "t2">>}
    /\ log["t2"].exists
    /\ log["t2"].count["Task was created"] = 1

\* -------------------------------------------------------- the log (C25)
\* add_log_message of the API, the pull and a worker on the log of the
\* finished task, and the expiry of the Log key.
NextLog ==
    \/ \E t \in TaskIds : log_expire(t)
    \/ \E a \in DOMAIN AppenderLine, t \in TaskIds : add_log_message_keys(a, t)
    \/ \E a \in DOMAIN AppenderLine : add_log_message_write(a)

SpecLog == InitTimed /\ [][NextLog]_vars

\* C25: the log is append-only: an add_log_message adds its line to the log
\* and the log keeps every line it held, also when two calls find no Log key.
LogIsAppendOnly ==
    [][\A a \in DOMAIN AppenderLine :
        (appends[a].pc = "write" /\ appends'[a] = Idle)
        => LET t == appends[a].task
               held(l) == IF log[t].exists THEN log[t].count[l] ELSE 0
           IN  /\ log'[t].exists
               /\ \A l \in LogLines : log'[t].count[l] >= held(l)
               /\ AppenderLine[a] \in LogLines
                    => log'[t].count[AppenderLine[a]]
                         = Saturate(held(AppenderLine[a]))]_vars

\* ------------------------------------------------------- key expiry (C26)
\* C26: every write of a State key (add_task, update_task_state) leaves the
\* key with its expiry, and every write of a Log key leaves the Log key
\* with an expiry: no key of a task is in the store without one.
WrittenKeysCarryExpiry ==
    [][\A t \in TaskIds :
        /\ (store'[t] # store[t] /\ store'[t] # NoTask) => ttl'[t]
        /\ (log'[t] # log[t] /\ log'[t].exists) => log'[t].expires]_vars

\* ------------------------------------------------ the library functions
\* The outcome of a call: the value returned, or the exception raised.
Returned(v) == [raised |-> "", value |-> v]
Raised(e) == [raised |-> e, value |-> 0]

\* ------------------------------------------- the binary envelopes (C28, C29)
\* bytes are sequences of 0..255; b[i:j] of Python, clipped to the length.
Slice(b, i, j) == SubSeq(b, i + 1, IF j < Len(b) THEN j ELSE Len(b))

\* CharType.pack: the bytes of the characters of a type name.
CharType_pack(obj) ==
    CASE obj = "int32" -> <<105, 110, 116, 51, 50>>
      [] obj = "float32" -> <<102, 108, 111, 97, 116, 51, 50>>

\* CharType.unpack: struct.error unless there are symbols_count bytes, else
\* the string of these bytes ("other": a string that names no array type).
CharType_unpack(value, symbols_count) ==
    IF Len(value) # symbols_count THEN Raised("struct.error")
    ELSE IF \E t \in {"int32", "float32"} : CharType_pack(t) = value
         THEN Returned(CHOOSE t \in {"int32", "float32"} : CharType_pack(t) = value)
         ELSE Returned("other")

\* IntType.pack: each number as 4 bytes, two's complement, least
\* significant byte first (struct format 'i').
IntType_pack(obj) ==
    LET plain(m) == <<m % 256, (m \div 256) % 256,
                      (m \div 65536) % 256, m \div 16777216>>
        four(n) == IF n >= 0 THEN plain(n)
                   ELSE [k \in 1..4 |-> 255 - plain(-n - 1)[k]]
        RECURSIVE pack(_)
        pack(ns) == IF ns = <<>> THEN <<>> ELSE four(Head(ns)) \o pack(Tail(ns))
    IN  pack(obj)

\* IntType.unpack: struct.error unless there are 4 * numbers_count bytes;
\* one number is returned bare, several as a list.
IntType_unpack(value, numbers_count) ==
    LET high(k) == IF value[4 * k] >= 128 THEN value[4 * k] - 256 ELSE value[4 * k]
        number(k) == value[4 * k - 3] + 256 * value[4 * k - 2]
                     + 65536 * value[4 * k - 1] + 16777216 * high(k)
    IN  IF Len(value) # 4 * numbers_count THEN Raised("struct.error")
        ELSE IF numbers_count = 1 THEN Returned(number(1))
        ELSE Returned([k \in 1..numbers_count |-> number(k)])

\* Array.convert_to_bytes.
Array_convert_to_bytes(a) ==
    CharType_pack(a.type_)
        \o IntType_pack(<<a.shape.rows_count, a.shape.cols_count>>)
        \o a.data

\* Array.create_from_bytes; an element of either type takes 4 bytes.
Array_create_from_bytes(bytes_obj) ==
    LET ArrayType == <<"int32", "float32">>
        RECURSIVE get_type_from_bytes(_)
        get_type_from_bytes(i) ==
            IF i > Len(ArrayType) THEN Raised("TypeError")
            ELSE LET symbols_count == Len(CharType_pack(ArrayType[i]))
                     actual_type == CharType_unpack(Slice(bytes_obj, 0, symbols_count),
                                                    symbols_count)
                 IN  IF actual_type.raised = "" /\ actual_type.value = ArrayType[i]
                     THEN actual_type
                     ELSE get_type_from_bytes(i + 1)
        array_type == get_type_from_bytes(1)
        left_edge == Len(CharType_pack(array_type.value))
        right_edge == left_edge + 2 * 4
        counts == IntType_unpack(Slice(bytes_obj, left_edge, right_edge), 2)
        rows_count == counts.value[1]
        cols_count == counts.value[2]
        element_size == 4
        actual_array_bytes_size == Len(bytes_obj) - right_edge
        excepted_array_bytes_size == rows_count * cols_count * element_size
    IN  IF array_type.raised # "" THEN array_type
        ELSE IF counts.raised # "" THEN counts
        ELSE IF excepted_array_bytes_size > actual_array_bytes_size
             THEN Raised("ValueError")
        ELSE Returned([type_ |-> array_type.value,
                       shape |-> [rows_count |-> rows_count,
                                  cols_count |-> cols_count],
                       data |-> Slice(bytes_obj, right_edge,
                                      right_edge + excepted_array_bytes_size)])

\* DelaysFinderParameters.create_from_bytes, then the validators of the
\* models it builds: check_array_type on the array's type and
\* __check_arguments on the base station index.  min_correlation is kept as
\* the 8 bytes of the double.
DelaysFinderParameters_create_from_bytes(bytes_obj) ==
    LET sizes == IntType_unpack(Slice(bytes_obj, 0, 8), 2)
        min_correlation == Slice(bytes_obj, 8, 16)
        base_station_index == IntType_unpack(Slice(bytes_obj, 16, 20), 1)
        array_type == CharType_unpack(Slice(bytes_obj, 20, 27), 7)
        counts == IntType_unpack(Slice(bytes_obj, 27, 35), 2)
        array_bytes == Slice(bytes_obj, 35, Len(bytes_obj))
    IN  IF sizes.raised # "" THEN sizes
        ELSE IF Len(min_correlation) # 8 THEN Raised("struct.error")
        ELSE IF base_station_index.raised # "" THEN base_station_index
        ELSE IF array_type.raised # "" THEN array_type
        ELSE IF counts.raised # "" THEN counts
        ELSE IF array_type.value \notin {"int32", "float32"} THEN Raised("KeyError")
        ELSE IF base_station_index.value >= counts.value[1] THEN Raised("IndexError")
        ELSE Returned([signals |-> [type_ |-> array_type.value,
                                    shape |-> [rows_count |-> counts.value[1],
                                               cols_count |-> counts.value[2]],
                                    data |-> array_bytes],
                       window_size |-> sizes.value[1],
                       scanner_size |-> sizes.value[2],
                       min_correlation |-> min_correlation,
                       base_station_index |-> base_station_index.value])

\* An array is packed and the bytes are unpacked again.
Array_round_trip_call ==
    /\ call.pc = "args"
    /\ call.op = "Array.round_trip"
    /\ call' = [call EXCEPT !.pc = "done",
                            !.result = Array_create_from_bytes(
                                           Array_convert_to_bytes(call.array))]
    /\ UNCHANGED <<storeVars, osVars, queueVars, localVars, api, created,
                   hostVars, timeVars, scan_local, pull, response, loads,
                   data, state_keys, appends>>

\* A call of Array.create_from_bytes returns or raises.
Array_create_from_bytes_call ==
    /\ call.pc = "args"
    /\ call.op = "Array.create_from_bytes"
    /\ call' = [call EXCEPT !.pc = "done",
                            !.result = Array_create_from_bytes(call.bytes_obj)]
    /\ UNCHANGED <<storeVars, osVars, queueVars, localVars, api, created,
                   hostVars, timeVars, scan_local, pull, response, loads,
                   data, state_keys, appends>>

\* A call of DelaysFinderParameters.create_from_bytes returns or raises.
DelaysFinderParameters_create_from_bytes_call ==
    /\ call.pc = "args"
    /\ call.op = "DelaysFinderParameters.create_from_bytes"
    /\ call' = [call EXCEPT !.pc = "done",
                            !.result = DelaysFinderParameters_create_from_bytes(
                                           call.bytes_obj)]
    /\ UNCHANGED <<storeVars, osVars, queueVars, localVars, api, created,
                   hostVars, timeVars, scan_local, pull, response, loads,
                   data, state_keys, appends>>

\* ------------------------------------------------ megabytes to bytes (C31)
\* convert_megabytes_to_bytes: value * 1024 ** 2, whatever the value.
convert_megabytes_to_bytes(value) == Returned(value * 1024 * 1024)

\* A call of convert_megabytes_to_bytes returns.
convert_megabytes_to_bytes_call ==
    /\ call.pc = "args"
    /\ call.op = "convert_megabytes_to_bytes"
    /\ call' = [call EXCEPT !.pc = "done",
                            !.result = convert_megabytes_to_bytes(call.value)]
    /\ UNCHANGED <<storeVars, osVars, queueVars, localVars, api, created,
                   hostVars, timeVars, scan_local, pull, response, loads,
                   data, state_keys, appends>>

\* ------------------------------------------------------ the GPU rig (C27)
\* get_free_gpu_card with no test of is_free.
get_free_gpu_card_without_is_free(cards, required) ==
    LET fits == {i \in 1..Len(cards) :
                    cards[i].total_volume - cards[i].used_volume > required}
    IN  IF fits = {} THEN Raised("NoFreeGPUCardException")
        ELSE Returned(CHOOSE i \in fits : \A j \in fits : i <= j)

\* GPURig.get_free_gpu_card over the memory of the rig's cards (MemoryInfo
\* records, in rig order): the loop of lines 473-480 from card i on.
\* permitted_volume is max(0, int(total * 0.95 - used)), free_volume is
\* total - used.  The value returned is the index of the card.
get_free_gpu_card(cards, required) ==
    LET permitted_volume(m) ==
            LET hundredths == 95 * m.total_volume - 100 * m.used_volume
            IN  IF hundredths > 0 THEN hundredths \div 100 ELSE 0
        free_volume(m) == m.total_volume - m.used_volume
        is_free(m) == permitted_volume(m) > 0
        RECURSIVE loop(_)
        loop(i) ==
            IF i > Len(cards) THEN Raised("NoFreeGPUCardException")
            ELSE IF ~is_free(cards[i]) THEN loop(i + 1)
            ELSE IF free_volume(cards[i]) > required THEN Returned(i)
            ELSE loop(i + 1)
    IN  loop(1)

\* A call of get_free_gpu_card returns or raises.
get_free_gpu_card_call ==
    /\ call.pc = "args"
    /\ call.op = "get_free_gpu_card"
    /\ call' = [call EXCEPT !.pc = "done",
                            !.result = get_free_gpu_card(call.cards, call.required)]
    /\ UNCHANGED <<storeVars, osVars, queueVars, localVars, api, created,
                   hostVars, timeVars, scan_local, pull, response, loads,
                   data, state_keys, appends>>

\* The library functions called with arguments from bounded sets: a rig of
\* up to MaxCards cards, each with a total and a used volume, and the bytes
\* required; an array of up to MaxDim rows and columns with the elements its
\* shape asks for (those of the non-zero dimension when the other is 0);
\* the bytes of such an array, or of delays finder parameters holding it,
\* whole or cut short; a number of megabytes, negative or not.
InitLib ==
    /\ StartOf(PullTaskIds, FALSE, FALSE, TRUE, MaxPid)
    /\ LET memories == {[total_volume |-> t, used_volume |-> u] :
                           t \in {20, 21}, u \in {0, 15, 19, 20}}
           rigs == UNION {[1..n -> memories] : n \in 0..MaxCards}
           elements == {<<7, 0, 0, 0>>, <<0, 0, 128, 63>>}
           RECURSIVE join(_)
           join(es) == IF es = <<>> THEN <<>> ELSE Head(es) \o join(Tail(es))
           length(r, c) == IF r = 0 THEN c ELSE IF c = 0 THEN r ELSE r * c
           arrays == {[type_ |-> t,
                       shape |-> [rows_count |-> sh[1], cols_count |-> sh[2]],
                       data |-> join(sh[3])] :
                         t \in {"int32", "float32"},
                         sh \in UNION {{<<r, c, es>> :
                                           es \in [1..length(r, c) -> elements]} :
                                        r \in 0..MaxDim, c \in 0..MaxDim}}
           heads(b) == {SubSeq(b, 1, n) : n \in 0..Len(b)}
           parameters(a) == IntType_pack(<<3, 1>>)
                                \o <<0, 0, 0, 0, 0, 0, 224, 63>>
                                \o IntType_pack(<<0>>)
                                \o Array_convert_to_bytes(a)
       IN  \/ \E cards \in rigs, required \in {0, 4, 5, 19, 20} :
                call = [pc |-> "args", op |-> "get_free_gpu_card",
                        cards |-> cards, required |-> required,
                        result |-> Raised("pending")]
           \/ \E value \in {-20, -1, 0, 1, 17, 1024} :
                call = [pc |-> "args", op |-> "convert_megabytes_to_bytes",
                        value |-> value, result |-> Raised("pending")]
           \/ \E a \in arrays :
                call = [pc |-> "args", op |-> "Array.round_trip",
                        array |-> a, result |-> Raised("pending")]
           \/ \E a \in arrays : \E b \in heads(Array_convert_to_bytes(a)) :
                call = [pc |-> "args", op |-> "Array.create_from_bytes",
                        bytes_obj |-> b, result |-> Raised("pending")]
           \/ \E a \in arrays : \E b \in heads(parameters(a)) :
                call = [pc |-> "args",
                        op |-> "DelaysFinderParameters.create_from_bytes",
                        bytes_obj |-> b, result |-> Raised("pending")]

NextLib ==
    \/ get_free_gpu_card_call
    \/ convert_megabytes_to_bytes_call
    \/ Array_round_trip_call
    \/ Array_create_from_bytes_call
    \/ DelaysFinderParameters_create_from_bytes_call

SpecLib == InitLib /\ [][NextLib]_vars

\* C27: get_free_gpu_card returns the first card, in rig order, whose
\* permitted memory is above 0 and whose free memory (total - used) is
\* strictly above the bytes required; when no card is so, it raises
\* NoFreeGPUCardException and returns no card.
FreeCardIsFirstFit ==
    (call.pc = "done" /\ call.op = "get_free_gpu_card")
    => LET cards == call.cards
           fits(i) ==
               /\ 95 * cards[i].total_volume - 100 * cards[i].used_volume >= 100
               /\ cards[i].total_volume - cards[i].used_volume > call.required
       IN  IF \E i \in 1..Len(cards) : fits(i)
           THEN /\ call.result.raised = ""
                /\ call.result.value \in 1..Len(cards)
                /\ fits(call.result.value)
                /\ \A j \in 1..(call.result.value - 1) : ~fits(j)
           ELSE call.result = Raised("NoFreeGPUCardException")

\* The second card was returned: the first has free memory above the bytes
\* required but no permitted memory.
SecondCardReturned ==
    /\ call.pc = "done"
    /\ call.op = "get_free_gpu_card"
    /\ call.result = Returned(2)
    /\ call.cards[1].total_volume - call.cards[1].used_volume > call.required

\* C28: packing an array envelope and unpacking the bytes gives the array
\* back (same type, rows, cols and data bytes), for type int32 or float32
\* and data consistent with the shape, 1-D views (rows = 0 or cols = 0, data
\* of the non-zero dimension) included.
ArrayRoundTrip ==
    (call.pc = "done" /\ call.op = "Array.round_trip")
    => (call.result.raised = "" /\ call.result.value = call.array)

\* C29: unpacking bytes whose header declares rows * cols * 4 bytes of data,
\* more than the bytes that follow the header, raises ValueError and returns
\* no object, for Array.create_from_bytes and for
\* DelaysFinderParameters.create_from_bytes alike.
TruncatedBytesRaiseValueError ==
    /\ (/\ call.pc = "done"
        /\ call.op = "Array.create_from_bytes"
        /\ \E t \in {"int32", "float32"} :
              LET h == Len(CharType_pack(t)) + 8
                  counts == IntType_unpack(Slice(call.bytes_obj, h - 8, h), 2)
              IN  /\ Slice(call.bytes_obj, 0, h - 8) = CharType_pack(t)
                  /\ Len(call.bytes_obj) >= h
                  /\ counts.value[1] * counts.value[2] * 4 > Len(call.bytes_obj) - h)
       => call.result.raised = "ValueError"
    /\ (/\ call.pc = "done"
        /\ call.op = "DelaysFinderParameters.create_from_bytes"
        /\ Len(call.bytes_obj) >= 35
        /\ Slice(call.bytes_obj, 20, 27) = CharType_pack("float32")
        /\ LET counts == IntType_unpack(Slice(call.bytes_obj, 27, 35), 2)
           IN  counts.value[1] * counts.value[2] * 4 > Len(call.bytes_obj) - 35)
       => call.result.raised = "ValueError"

\* C30: save_binary_data on a name that is in the file store raises
\* FileExistsError (the request is answered 500) and leaves the content of
\* the file as it was: no step writes the content of a file that exists.
SaveNeverOverwrites ==
    [][\A t \in TaskIds :
          input_args_filename(t) \in files => data'[t] = data[t]]_vars

\* C31: convert_megabytes_to_bytes returns value * 1024^2 for a value >= 0
\* and raises ValueError for a negative value, returning no byte count.
MegabytesToBytesRejectsNegative ==
    (call.pc = "done" /\ call.op = "convert_megabytes_to_bytes")
    => IF call.value >= 0
       THEN call.result.raised = "" /\ call.result.value = call.value * 1048576
       ELSE call.result.raised = "ValueError"

\* ------------------------------------------- the kill loop (C32, C33)
\* The API, the launch path (which takes its ids from accepted_pull), the
\* workers, the kill path of the pull and key expiry: the kill loop finds
\* tasks with and without a process and with and without the flag.  Tasks
\* are created with and without launcher template.  No file is removed: a
\* spawned script always finds its file.
NextKill ==
    \/ create_task("delays")
    \/ create_task("location")
    \/ \E t \in TaskIds : load_input_args(t)
    \/ \E t \in TaskIds : run_task_check(t)
    \/ run_task_read
    \/ run_task_write
    \/ \E t \in TaskIds : kill_task_read(t)
    \/ kill_task_write
    \/ \E t \in TaskIds : accept_transfer_check(t)
    \/ accept_transfer_read
    \/ accept_transfer_write
    \/ \E t \in TaskIds : expire(t)
    \/ \E t \in TaskIds : scan_killing_tasks(t)
    \/ \E t \in TaskIds : scan_ready_tasks(t)
    \/ \E t \in TaskIds : scan_accepted_tasks(t)
    \/ kill_tasks_read
    \/ kill_tasks_write
    \/ run_tasks
    \/ \E ty \in TaskTypes : run_tasks_block_spawn(ty)
    \/ \E ty \in TaskTypes : run_tasks_block_write(ty)
    \/ \E p \in Pids, o \in Outcomes : GPUProcess_run(p, o)
    \/ \E p \in Pids : finalize_read(p)
    \/ \E p \in Pids : worker_write(p)

SpecKill == InitFair /\ [][NextKill]_vars

\* C32: the kill loop signals a process or marks a task killed only if the
\* state it reads when it takes the id from kill_pull has is_need_kill set;
\* when the task is not found or the flag is not set, the loop signals no
\* process, writes no state and appends no log line.
KillLoopNeedsFlag ==
    [][/\ (kill_local = Idle /\ kill_pull # <<>> /\ kill_pull' = Tail(kill_pull))
          => LET t == Head(kill_pull)
                 flagged == is_task_exist(t) /\ get_task_state(t).is_need_kill
             IN  /\ ~flagged => /\ kill_local' = Idle
                                /\ UNCHANGED <<store, ttl, log, procs>>
                 /\ (procs' # procs \/ kill_local'.pc = "write") => flagged
       /\ (kill_local.pc = "write" /\ kill_local' = Idle)
          => /\ kill_local.state.is_need_kill
             /\ kill_local.state.status = "killed"
       /\ \A t \in TaskIds :
             (/\ log'[t].exists
              /\ log'[t].count["Task was killed"] >
                    (IF log[t].exists THEN log[t].count["Task was killed"] ELSE 0))
             => kill_local.pc = "write" /\ kill_local.task = t
      ]_vars

\* The kill loop is about to take from kill_pull the id of a task that is
\* stored without the flag: a state write made from an earlier read has
\* cleared the flag after the scan put the id.
KillLoopFindsNoFlag ==
    /\ kill_local = Idle
    /\ kill_pull # <<>>
    /\ is_task_exist(Head(kill_pull))
    /\ ~get_task_state(Head(kill_pull)).is_need_kill

\* C33: for a task with pid >= 0 and the flag set, the kill loop decides to
\* write status = killed only when there is no such process or the process
\* is a zombie when it is observed (before or after the signal); it signals
\* only a process that is running and not a zombie; and when it signals and
\* does not see a zombie, it writes nothing: the stored record keeps its
\* status and its flag, and the next scan cycle puts the id again.
KillLoopObservesProcess ==
    [][(/\ kill_local = Idle
        /\ kill_pull # <<>>
        /\ kill_pull' = Tail(kill_pull)
        /\ is_task_exist(Head(kill_pull))
        /\ get_task_state(Head(kill_pull)).is_need_kill
        /\ get_task_state(Head(kill_pull)).pid >= 0)
       => LET t == Head(kill_pull)
              pid == get_task_state(t).pid
          IN  /\ kill_local'.pc = "write"
                 => \/ ProcessStatus(pid) \in {"none", "zombie"}
                    \/ procs'[pid] = "zombie"
              /\ procs' # procs
                 => /\ ProcessStatus(pid) = "running"
                    /\ procs' = [procs EXCEPT ![pid] = "zombie"]
              /\ kill_local' = Idle
                 => /\ procs' # procs
                    /\ store' = store
                    /\ log' = log
                    /\ store[t].status # "killed"
                          => KillScanPut(<<>>, t) = <<t>>
      ]_vars

\* The kill loop has signalled the process of a running task, has seen the
\* zombie and is about to write status = killed.
KillLoopSawZombie ==
    /\ kill_local.pc = "write"
    /\ kill_local.state.pid \in Pids
    /\ procs[kill_local.state.pid] = "zombie"
    /\ is_task_exist(kill_local.task)
    /\ store[kill_local.task].status = "running"

\* C34: a task of a type without launcher template never reaches status
\* ready: /load-args writes no script file for it, /run is rejected for it
\* whenever it is sent, and its status is new until it is killed.
NoTemplateNeverReady ==
    \A t \in TaskIds :
       (is_task_exist(t) /\ store[t].type_ # "delays")
       => /\ store[t].status \in {"new", "killed"}
          /\ ~is_file_exist(script_filename(t))
          /\ ~IsReadyForRun(t)

\* The input arguments of a task without launcher template are loaded and
\* the task is new: POST /run finds no script file.
NoTemplateLoaded ==
    \E t \in TaskIds :
       /\ is_task_exist(t)
       /\ store[t].type_ = "location"
       /\ store[t].status = "new"
       /\ is_file_exist(input_args_filename(t))

\* C35: a kill request is never lost: once is_need_kill is stored as true for
\* a task, it stays true as long as the task's record is in the store,
\* whatever the state writes of the pull, the workers and the API.
KillRequestIsKept ==
    [][\A t \in TaskIds :
          (is_task_exist(t) /\ store[t].is_need_kill /\ store'[t].status # "absent")
          => store'[t].is_need_kill]_vars

\* C36: at no time are two subprocesses launched by the pull alive for the
\* same task id.
OneLiveSubprocessPerTask ==
    \A p, q \in Pids :
       (/\ p # q
        /\ procs[p] = "running"
        /\ procs[q] = "running"
        /\ worker[p] # Idle
        /\ worker[q] # Idle)
       => worker[p].task # worker[q].task

\* C37: killed is absorbing: once the stored status of a task is killed, no
\* write of the workers, the pull or the API changes it to another status.
KilledIsAbsorbing ==
    [][\A t \in TaskIds :
          (store[t].status = "killed" /\ store'[t].status # "absent")
          => store'[t].status = "killed"]_vars

\* C38: every task the pull has set to running eventually leaves running:
\* when the pull's loops and the spawned subprocesses are scheduled fairly,
\* a stored status running is followed by finished, failed, killed or ready
\* (or by the end of the record).
RunningIsLeft ==
    (\A p \in 1..MaxPid :
        /\ WF_vars(worker_exit(p))
        /\ WF_vars(\E o \in Outcomes \ {"crash"} : GPUProcess_run(p, o))
        /\ WF_vars(finalize_read(p))
        /\ WF_vars(worker_write(p)))
    => \A t \in PullTaskIds :
          (store[t].status = "running") ~> (store[t].status # "running")

\* ------------------------------------------ concurrent POST /create (C39)
\* POST /create of client r, lines 175-181: get_user_task_ids is awaited and
\* the count is tested; 429 above the per-user cap.
create_task_count(r) ==
    /\ loads[r].pc \in {"idle", "answered"}
    /\ loads' = [loads EXCEPT ![r] =
                   IF IsOverCap(Cardinality(get_user_task_ids))
                   THEN [pc |-> "answered", code |-> 429]
                   ELSE [pc |-> "add_task"]]
    /\ UNCHANGED <<storeVars, data>>
    /\ LoadUnchanged

\* POST /create of client r, lines 183-193: add_task of a new TaskState (its
\* task_id is a fresh uuid4), then 200.
create_task_add(r, type) ==
    /\ loads[r].pc = "add_task"
    /\ \E t \in TaskIds \ (created \cup {SeedTask}) :
          /\ ~AddTaskRaises(t)
          /\ AddTaskWrites("u1", t, type)
          /\ created' = created \cup {t}
    /\ loads' = [loads EXCEPT ![r] = [pc |-> "answered", code |-> 200]]
    /\ UNCHANGED <<files, osVars, queueVars, localVars, api, hostVars,
                   timeVars, scan_local, pull, response, data, appends, call>>

\* The requests of one user's clients, each between its awaits, and key
\* expiry.
NextUser ==
    \/ \E r \in LoadIds : create_task_count(r)
    \/ \E r \in LoadIds : create_task_add(r, "delays")
    \/ \E t \in TaskIds : expire(t)

SpecUser == InitCreate /\ [][NextUser]_vars

\* C39: the number of task records a user holds never exceeds the per-user
\* cap plus one, after any sequence and any interleaving of concurrent
\* POST /create requests of that user.
UserTasksWithinCapPlusOne ==
    Cardinality(get_user_task_ids) <= MAXIMAL_TASKS_FOR_USER + 1

\* ------------------------------------------------- the queue lengths (C40)
\* scan_ready_tasks, one whole cycle over all_task_ids, then the sleep: the
\* id of every ready task is put into ready_pull[type], the queue being
\* created at the type's first sighting.  A queue of ready_pull is followed
\* up to MaxBacklog entries.
scan_ready_tasks_cycle ==
    /\ LET RECURSIVE Cycle(_, _)
           Cycle(rp, order) ==
               IF order = <<>> THEN rp
               ELSE LET t == Head(order)
                        ty == store[t].type_
                        q == IF rp[ty] = NoQueue THEN <<>> ELSE rp[ty]
                    IN  IF is_task_exist(t) /\ store[t].status = "ready"
                        THEN Cycle([rp EXCEPT ![ty] =
                                      IF Len(q) < MaxBacklog
                                      THEN Append(q, t) ELSE q],
                                   Tail(order))
                        ELSE Cycle(rp, Tail(order))
       IN  \E o \in TaskOrders : ready_pull' = Cycle(ready_pull, o)
    /\ UNCHANGED <<kill_pull, accepted_pull, run_blocks, timeVars>>
    /\ PullUnchanged

\* The requests that make a task ready and accept a finished one, the ready
\* scan cycle by cycle, the accepted scan and the run loop (the only reader
\* of ready_pull: run_tasks_block tests ready_pull[type].empty() and takes
\* its id from accepted_pull).
NextBacklog ==
    \/ create_task("delays")
    \/ \E t \in TaskIds : load_input_args(t)
    \/ \E t \in TaskIds : run_task_check(t)
    \/ run_task_read
    \/ run_task_write
    \/ \E t \in TaskIds : accept_transfer_check(t)
    \/ accept_transfer_read
    \/ accept_transfer_write
    \/ scan_ready_tasks_cycle
    \/ \E t \in TaskIds : scan_accepted_tasks(t)
    \/ run_tasks
    \/ \E ty \in TaskTypes : run_tasks_block_spawn(ty)
    \/ \E ty \in TaskTypes : run_tasks_block_write(ty)

SpecBacklog == InitFair /\ [][NextBacklog]_vars

\* C40: the lengths of kill_pull, accepted_pull and every queue of
\* ready_pull stay bounded: with the set of tasks fixed, scan cycles that
\* put the same ids again, with consumers that take at most one id per
\* polling period, never fill a queue up to MaxBacklog ids (more ids than
\* there are tasks).
QueuesStayBounded ==
    /\ Len(kill_pull) < MaxBacklog
    /\ Len(accepted_pull) < MaxBacklog
    /\ \A ty \in TaskTypes :
          ready_pull[ty] # NoQueue => Len(ready_pull[ty]) < MaxBacklog

====
